---- MODULE Spec2Model ----
(***************************************************************************)
(* TheLightrading: catalog ingestion, tiered pricing and the loyalty       *)
(* ledger (src/api/server.py over src/api/db.py), as a state machine.      *)
(*                                                                         *)
(* The state is the content of the SQLite tables the handlers read and     *)
(* write, the coroutines of the requests in flight on the event loop, and  *)
(* the response of the last handler that answered.  An action is one HTTP  *)
(* handler run from its first statement to its response; the event-loop    *)
(* specification splits the handlers at their statements instead.          *)
(*                                                                         *)
(* Money is kept in cents (integers); a percentage is an integer; a final  *)
(* amount is kept in 1/100 of a cent so that amount * (1 - d/100) is exact.*)
(* Text that the code inspects character by character (e-mail addresses)   *)
(* is a sequence of one-character strings; text it only compares is an     *)
(* opaque string.  Python's None / SQL NULL is the string "None" for       *)
(* opaque values, and the empty sequence for character sequences (every    *)
(* reader of an e-mail tests its truthiness, so None and "" act alike).    *)
(***************************************************************************)
EXTENDS Integers, Sequences, FiniteSets, TLC

VARIABLES clients, nextClientId, promo_logs, products, discount_rules,
          price_list_imports, meta, orders, nextOrderId, today, loop, lastOp

vars == <<clients, nextClientId, promo_logs, products, discount_rules,
          price_list_imports, meta, orders, nextOrderId, today, loop, lastOp>>

None == "None"

\* a request or a dict without an id: `if data.get("id")` is false for None and 0
NoId == 0

NoText == <<>>

\* -------------------------------------------------------------------------
\* Bounds of the model
\* -------------------------------------------------------------------------

\* rows the clients table may ever have received (AUTOINCREMENT ids 1..MaxClients),
\* under the import alone
MaxClients == 2

\* the same, under the operations of the loyalty ledger
MaxLedgerClients == 1

\* rows of promo_logs
MaxLogs == 2

\* data rows of one uploaded promo workbook
MaxRows == 2

\* -------------------------------------------------------------------------
\* Text helpers
\* -------------------------------------------------------------------------

\* str.lower() on the alphabet the model uses
LowerChar(ch) ==
    CASE ch = "A" -> "a"
      [] ch = "B" -> "b"
      [] ch = "C" -> "c"
      [] ch = "D" -> "d"
      [] OTHER -> ch

Lower(s) == [i \in DOMAIN s |-> LowerChar(s[i])]

RECURSIVE LStrip(_)
LStrip(s) == IF s # <<>> /\ Head(s) = " " THEN LStrip(Tail(s)) ELSE s

RECURSIVE RStrip(_)
RStrip(s) ==
    IF s # <<>> /\ s[Len(s)] = " " THEN RStrip(SubSeq(s, 1, Len(s) - 1)) ELSE s

\* str.strip()
Strip(s) == RStrip(LStrip(s))

\* _clean(value) or None, for a cell read character by character
CleanText(cell) == Strip(cell)

\* _clean(value) or None, for an opaque cell (already stripped text or None)
CleanOpaque(cell) == IF cell = "" THEN None ELSE cell

\* "@" in value and "." in value.split("@")[-1]
ValidEmail(value) ==
    /\ value # NoText
    /\ \E i \in DOMAIN value :
          /\ value[i] = "@"
          /\ \A k \in DOMAIN value : k > i => value[k] # "@"
          /\ \E j \in DOMAIN value : j > i /\ value[j] = "."

\* -------------------------------------------------------------------------
\* clients table
\* -------------------------------------------------------------------------

MinOf(S) == CHOOSE x \in S : \A y \in S : x <= y

\* the rows the WHERE clause of find_client_by_email_or_piva selects
FindMatches(tbl, email, piva) ==
    { id \in DOMAIN tbl :
        \/ email # NoText /\ tbl[id].email # NoText
                          /\ Lower(tbl[id].email) = Lower(email)
        \/ piva # None /\ tbl[id].piva = piva }

\* fetchone() of a query without ORDER BY: SQLite scans the table in rowid order
find_client_by_email_or_piva(tbl, email, piva) ==
    IF (email = NoText /\ piva = None) \/ FindMatches(tbl, email, piva) = {}
    THEN NoId
    ELSE MinOf(FindMatches(tbl, email, piva))

\* the columns save_client writes, from the dict it is given (the columns no
\* handler reads back to decide anything are left out: ragione_sociale, telefono,
\* listino, stato, note, the timestamps, and user_id, which only
\* link_client_to_user_by_email uses)
ClientRow(data, ticket) ==
    [ piva              |-> data.piva,
      email             |-> data.email,
      promo_enabled     |-> IF data.promo_enabled = 1 THEN 1 ELSE 0,
      promo_points      |-> data.promo_points,
      promo_ticket_code |-> ticket ]

\* the ticket code save_client stores on UPDATE of the row `existing`
SaveTicket(data, existing) ==
    IF data.promo_ticket_code # None THEN data.promo_ticket_code
    ELSE existing.promo_ticket_code

\* save_client: UPDATE ... WHERE id = ? when data carries an id, else INSERT
save_client(db, data) ==
    IF data.id # NoId
    THEN IF data.id \in DOMAIN db.clients
         THEN [db EXCEPT !.clients[data.id] =
                    ClientRow(data, SaveTicket(data, db.clients[data.id]))]
         ELSE db
    ELSE [ clients |-> [ id \in DOMAIN db.clients \cup {db.next} |->
                            IF id = db.next THEN ClientRow(data, data.promo_ticket_code)
                            ELSE db.clients[id] ],
           next    |-> db.next + 1 ]

\* DELETE FROM clients WHERE id = ?
delete_client(tbl, id) == [ c \in DOMAIN tbl \ {id} |-> tbl[c] ]

\* -------------------------------------------------------------------------
\* Loyalty ledger
\* -------------------------------------------------------------------------

\* PROMO_POINTS
PromoPoints ==
    [ FOLLOW_SOCIAL     |-> 5,
      ADD_BROADCAST     |-> 50,
      ORDER_REMAN       |-> 100,
      REACH_AVG_REVENUE |-> 200,
      UPSELL_REVENUE    |-> 500,
      BRING_NEW_COMPANY |-> 1000 ]

\* _generate_ticket_code(): "XMAS-" + 8 random hex digits; the model draws it
TicketCodes == { "XMAS-0000000A", "XMAS-0000000B" }

\* a grant that hands a ticket to every client that has none, enrolled or not
GrantTicketIfMissing(client, fresh) ==
    IF client.promo_ticket_code = None THEN fresh ELSE client.promo_ticket_code

\* the ticket code add_promo_points writes back
GrantTicketAlways(client, fresh) == fresh

GrantTicket(client, fresh) ==
    IF client.promo_ticket_code = None /\ client.promo_enabled = 1
    THEN fresh
    ELSE client.promo_ticket_code

\* a grant that keeps one ledger row per client and action: it rewrites the
\* row of an earlier grant of the same action instead of adding one
AddPointsOneRowPerAction(db, client_id, action_code, points, fresh) ==
    [ clients |-> [db.clients EXCEPT
                     ![client_id].promo_points = db.clients[client_id].promo_points + points],
      logs    |-> IF \E i \in 1..Len(db.logs) : /\ db.logs[i].client_id = client_id
                                                /\ db.logs[i].action_code = action_code
                  THEN [ i \in 1..Len(db.logs) |->
                           IF db.logs[i].client_id = client_id /\ db.logs[i].action_code = action_code
                           THEN [ db.logs[i] EXCEPT !.points = @ + points ]
                           ELSE db.logs[i] ]
                  ELSE Append(db.logs, [ client_id   |-> client_id,
                                         action_code |-> action_code,
                                         points      |-> points ]) ]

\* add_promo_points, for a client that exists: the UPDATE of the counter and the
\* ticket, and the INSERT into promo_logs, committed together
add_promo_points(db, client_id, action_code, points, fresh) ==
    [ clients |-> [db.clients EXCEPT
                     ![client_id].promo_points = db.clients[client_id].promo_points + points,
                     ![client_id].promo_ticket_code = GrantTicket(db.clients[client_id], fresh)],
      logs    |-> Append(db.logs, [ client_id   |-> client_id,
                                    action_code |-> action_code,
                                    points      |-> points ]) ]

\* tier thresholds of get_promo_summary
TierOfExclusive(points) ==
    IF points > 1000 THEN "max"
    ELSE IF points > 850 THEN "tier2"
    ELSE IF points > 350 THEN "tier1"
    ELSE "base"

TierOf(points) ==
    IF points >= 1000 THEN "max"
    ELSE IF points >= 850 THEN "tier2"
    ELSE IF points >= 350 THEN "tier1"
    ELSE "base"

\* prize list of a tier
PrizesOf(tier) ==
    CASE tier = "tier1" ->
           << "1 premio disponibile",
              "Spedizione gratuita prime due settimane di gennaio",
              "Omaggi su prodotti trattati" >>
      [] tier = "tier2" ->
           << "Fino a 2 premi disponibili",
              "Spedizione gratuita prime due settimane di gennaio",
              "Sconto massimo sul fatturato di gennaio",
              "Omaggi prodotti trattati",
              "Sconto minimo 3 mesi su categoria trattata" >>
      [] tier = "max" ->
           << "Biglietto fortunato: tutti i vantaggi (max 3 premi)",
              "Spedizione gratuita prime due settimane di gennaio",
              "Sconto massimo sul fatturato di gennaio",
              "Omaggi prodotti trattati",
              "Sconto minimo 3 mesi su categoria trattata" >>
      [] OTHER -> << >>

RECURSIVE Reverse(_)
Reverse(s) == IF s = <<>> THEN <<>> ELSE Append(Reverse(Tail(s)), Head(s))

\* SELECT action_code, points FROM promo_logs WHERE client_id = ? ORDER BY id DESC
ActionsOf(logs, client_id) ==
    LET mine == SelectSeq(logs, LAMBDA l : l.client_id = client_id)
    IN  Reverse([ i \in DOMAIN mine |->
                    [ action_code |-> mine[i].action_code, points |-> mine[i].points ] ])

\* get_promo_summary, for a client that exists
get_promo_summary(tbl, logs, client_id) ==
         [ points            |-> tbl[client_id].promo_points,
           actions           |-> ActionsOf(logs, client_id),
           tier              |-> TierOf(tbl[client_id].promo_points),
           prizes_available  |-> PrizesOf(TierOf(tbl[client_id].promo_points)),
           promo_enabled     |-> tbl[client_id].promo_enabled = 1,
           promo_ticket_code |-> tbl[client_id].promo_ticket_code ]

\* -------------------------------------------------------------------------
\* Promo-client import
\* -------------------------------------------------------------------------

\* `any(row)`: some cell of the row is truthy
NonEmptyRow(row) ==
    row.ragione_sociale # None \/ row.piva # None \/ row.email # NoText

\* the dict the import builds for a row and hands to save_client
ImportClientData(row, id) ==
    [ id                |-> id,
      piva              |-> CleanOpaque(row.piva),
      email             |-> CleanText(row.email),
      promo_enabled     |-> 1,
      promo_points      |-> 0,
      promo_ticket_code |-> None ]

\* the body of the import loop for the row at position idx (1-based, over the
\* non-empty rows); acc carries the tables and the counters
ImportRowNoIsolation(acc, idx, row) ==
    LET email == CleanText(row.email)
        piva  == CleanOpaque(row.piva)
        done  == [acc EXCEPT !.processed = acc.processed + 1]
        existing == find_client_by_email_or_piva(acc.db.clients, email, piva)
    IN  IF email = NoText /\ piva = None
        THEN [done EXCEPT !.errors =
                 Append(acc.errors, [row |-> idx, error |-> "missing_email_and_piva"])]
        ELSE IF existing # NoId
        THEN [done EXCEPT !.db = save_client(acc.db, ImportClientData(row, existing)),
                          !.updated = acc.updated + 1]
        ELSE [done EXCEPT !.db = save_client(acc.db, ImportClientData(row, NoId)),
                          !.imported = acc.imported + 1]

\* a loop body that counts a row with an invalid e-mail as imported as well
ImportRowCountsRejected(acc, idx, row) ==
    LET email == CleanText(row.email)
        piva  == CleanOpaque(row.piva)
        done  == [acc EXCEPT !.processed = acc.processed + 1]
        existing == find_client_by_email_or_piva(acc.db.clients, email, piva)
    IN  IF email = NoText /\ piva = None
        THEN [done EXCEPT !.errors =
                 Append(acc.errors, [row |-> idx, error |-> "missing_email_and_piva"])]
        ELSE IF email # NoText /\ ~ValidEmail(email)
        THEN [done EXCEPT !.errors =
                 Append(acc.errors,
                        [row |-> idx, error |-> "invalid_email", email |-> email]),
                          !.imported = acc.imported + 1]
        ELSE IF existing # NoId
        THEN [done EXCEPT !.db = save_client(acc.db, ImportClientData(row, existing)),
                          !.updated = acc.updated + 1]
        ELSE [done EXCEPT !.db = save_client(acc.db, ImportClientData(row, NoId)),
                          !.imported = acc.imported + 1]

ImportRow(acc, idx, row) ==
    LET email == CleanText(row.email)
        piva  == CleanOpaque(row.piva)
        done  == [acc EXCEPT !.processed = acc.processed + 1]
        existing == find_client_by_email_or_piva(acc.db.clients, email, piva)
    IN  IF email = NoText /\ piva = None
        THEN [done EXCEPT !.errors =
                 Append(acc.errors, [row |-> idx, error |-> "missing_email_and_piva"])]
        ELSE IF email # NoText /\ ~ValidEmail(email)
        THEN [done EXCEPT !.errors =
                 Append(acc.errors,
                        [row |-> idx, error |-> "invalid_email", email |-> email])]
        ELSE IF existing # NoId
        THEN [done EXCEPT !.db = save_client(acc.db, ImportClientData(row, existing)),
                          !.updated = acc.updated + 1]
        ELSE [done EXCEPT !.db = save_client(acc.db, ImportClientData(row, NoId)),
                          !.imported = acc.imported + 1]

\* for idx, row in enumerate(rows, start=1)
RECURSIVE ImportRows(_, _, _)
ImportRows(acc, idx, rows) ==
    IF idx > Len(rows) THEN acc
    ELSE ImportRows(ImportRow(acc, idx, rows[idx]), idx + 1, rows)

\* the whole import of the rows of a sheet, from the tables `db`
ImportPromo(db, sheet) ==
    ImportRows([ db |-> db, processed |-> 0, imported |-> 0, updated |-> 0,
                 errors |-> <<>> ],
               1, SelectSeq(sheet, NonEmptyRow))

\* -------------------------------------------------------------------------
\* Handlers of the client registry and the loyalty ledger
\* -------------------------------------------------------------------------

catalogVars == <<products, discount_rules, price_list_imports, meta>>

clientVars == <<clients, nextClientId, promo_logs>>

orderVars == <<orders, nextOrderId, today>>

\* the response of an import that ran to its end with the result r
ImportResponse(r) ==
    [ op |-> "import_promo", status |-> 200,
      processed |-> r.processed, imported |-> r.imported,
      updated |-> r.updated, errors |-> r.errors ]

\* POST /admin/clients/import_promo with the first sheet of the workbook
admin_clients_import_promo(sheet) ==
    \E r \in { ImportPromo([clients |-> clients, next |-> nextClientId], sheet) } :
        IF r.processed = 0
        THEN /\ lastOp' = [ op |-> "import_promo", status |-> 400, reason |-> "no_rows" ]
             /\ UNCHANGED <<loop, orderVars, clientVars, catalogVars>>
        ELSE /\ clients' = r.db.clients
             /\ nextClientId' = r.db.next
             /\ lastOp' = ImportResponse(r)
             /\ UNCHANGED <<loop, orderVars, promo_logs, catalogVars>>

\* POST /admin/clients/save
admin_clients_save(body) ==
    LET r == save_client([clients |-> clients, next |-> nextClientId], body)
    IN  /\ clients' = r.clients
        /\ nextClientId' = r.next
        /\ lastOp' = [ op |-> "client_save",
                       saved |-> [body EXCEPT !.id =
                                    IF body.id # NoId THEN body.id ELSE nextClientId] ]
        /\ UNCHANGED <<loop, orderVars, promo_logs, catalogVars>>

\* POST /admin/clients/delete
admin_clients_delete(id) ==
    /\ clients' = IF id # NoId THEN delete_client(clients, id) ELSE clients
    /\ lastOp' = [ op |-> "client_delete", id |-> id ]
    /\ UNCHANGED <<loop, orderVars, nextClientId, promo_logs, catalogVars>>

\* a grant that writes the ledger row without looking the client up
AddPointsNoLookup(client_id, action_code) ==
    IF client_id = NoId \/ action_code \notin DOMAIN PromoPoints
    THEN /\ lastOp' = [ op |-> "add_points", status |-> 400, client_id |-> client_id ]
         /\ UNCHANGED <<loop, orderVars, clientVars, catalogVars>>
    ELSE /\ promo_logs' = Append(promo_logs, [ client_id   |-> client_id,
                                               action_code |-> action_code,
                                               points      |-> PromoPoints[action_code] ])
         /\ lastOp' = [ op |-> "add_points", status |-> 404, client_id |-> client_id ]
         /\ UNCHANGED <<loop, orderVars, clients, nextClientId, catalogVars>>

\* POST /admin/promo/add_points
admin_promo_add_points(client_id, action_code) ==
    IF client_id = NoId \/ action_code \notin DOMAIN PromoPoints
    THEN /\ lastOp' = [ op |-> "add_points", status |-> 400, client_id |-> client_id ]
         /\ UNCHANGED <<loop, orderVars, clientVars, catalogVars>>
    ELSE IF client_id \notin DOMAIN clients
    THEN /\ lastOp' = [ op |-> "add_points", status |-> 404, client_id |-> client_id ]
         /\ UNCHANGED <<loop, orderVars, clientVars, catalogVars>>
    ELSE /\ \E fresh \in TicketCodes :
              LET r == add_promo_points([clients |-> clients, logs |-> promo_logs],
                                        client_id, action_code,
                                        PromoPoints[action_code], fresh)
              IN  /\ clients' = r.clients
                  /\ promo_logs' = r.logs
                  /\ lastOp' = [ op |-> "add_points", status |-> 200,
                                 client_id |-> client_id,
                                 client |-> r.clients[client_id],
                                 summary |-> get_promo_summary(r.clients, r.logs, client_id) ]
         /\ UNCHANGED <<loop, orderVars, nextClientId, catalogVars>>

\* GET /admin/promo/summary
admin_promo_summary(client_id) ==
    /\ lastOp' =
          IF client_id = NoId
          THEN [ op |-> "promo_summary", status |-> 400, client_id |-> client_id ]
          ELSE IF client_id \notin DOMAIN clients
          THEN [ op |-> "promo_summary", status |-> 404, client_id |-> client_id ]
          ELSE [ op |-> "promo_summary", status |-> 200, client_id |-> client_id,
                 summary |-> get_promo_summary(clients, promo_logs, client_id) ]
    /\ UNCHANGED <<loop, orderVars, clientVars, catalogVars>>

\* -------------------------------------------------------------------------
\* Inputs of the client registry
\* -------------------------------------------------------------------------

EmailA == << "a", "@", "b", ".", "c" >>

EmailAUpper == << "A", "@", "B", ".", "C" >>

EmailD == << "d", "@", "b", ".", "c" >>

EmailDPadded == << " ", "d", "@", "b", ".", "c", " " >>

EmailDotBeforeAt == << "a", ".", "b", "@", "c" >>

PromoRow(rs, piva, email) == [ ragione_sociale |-> rs, piva |-> piva, email |-> email ]

\* cells of the rows an uploaded sheet is made of
RowPool ==
    { PromoRow("Acme", "P1", EmailA),
      PromoRow("Beta", "P2", EmailDPadded),
      PromoRow(None, "P2", EmailAUpper),
      PromoRow("Acme", "P1", EmailDotBeforeAt),
      PromoRow("Gamma", None, NoText),
      PromoRow(None, None, NoText) }

SeqsUpTo(S, n) == UNION { [1..k -> S] : k \in 1..n }

Sheets == SeqsUpTo(RowPool, MaxRows)

ClientBody(id, piva, email, enabled, points, ticket) ==
    [ id |-> id, piva |-> piva, email |-> email,
      promo_enabled |-> enabled, promo_points |-> points,
      promo_ticket_code |-> ticket ]

ActionCodes == { "FOLLOW_SOCIAL", "BRING_NEW_COMPANY", "UNKNOWN" }

\* -------------------------------------------------------------------------
\* Specifications of the client registry and the loyalty ledger
\* -------------------------------------------------------------------------

EmptyTable == [ k \in {} |-> None ]

\* the UTC day, counted in days, on which the model starts
FirstDay == 100

Init ==
    /\ clients = EmptyTable
    /\ nextClientId = 1
    /\ promo_logs = <<>>
    /\ products = EmptyTable
    /\ discount_rules = <<>>
    /\ price_list_imports = <<>>
    /\ meta = EmptyTable
    /\ orders = <<>>
    /\ nextOrderId = 1
    /\ today = FirstDay
    /\ loop = [ tasks |-> EmptyTable, running |-> NoId ]
    /\ lastOp = [ op |-> "init" ]

\* the promo-client import alone, over every sheet of up to MaxRows rows
ImportPromoStep ==
    \E sheet \in Sheets :
        /\ admin_clients_import_promo(sheet)
        /\ nextClientId' <= MaxClients + 1

ImportDeleteStep == \E id \in 0..MaxClients : admin_clients_delete(id)

NextImport ==
    \/ ImportPromoStep
    \/ ImportDeleteStep

SpecImport == Init /\ [][NextImport]_vars

\* the operations of the loyalty ledger; the import with one-row sheets
LedgerIds == 0..MaxLedgerClients

LedgerSheets ==
    { << PromoRow("Acme", "P1", EmailA) >>, << PromoRow("Beta", "P2", EmailDPadded) >> }

\* bodies of POST /admin/clients/save
SaveBodies ==
    { ClientBody(id, "P1", EmailA, enabled, points, ticket) :
        id \in LedgerIds, enabled \in {0, 1}, points \in {0, 5},
        ticket \in {None, "XMAS-0000000A"} }

LedgerImportStep ==
    \E sheet \in LedgerSheets :
        /\ admin_clients_import_promo(sheet)
        /\ nextClientId' <= MaxLedgerClients + 1

ClientSaveStep ==
    \E body \in SaveBodies :
        /\ admin_clients_save(body)
        /\ nextClientId' <= MaxLedgerClients + 1

ClientDeleteStep == \E id \in LedgerIds : admin_clients_delete(id)

AddPointsStep ==
    \E id \in LedgerIds, code \in ActionCodes :
        /\ admin_promo_add_points(id, code)
        /\ Len(promo_logs') <= MaxLogs

PromoSummaryStep == \E id \in LedgerIds : admin_promo_summary(id)

NextLedger ==
    \/ LedgerImportStep
    \/ ClientSaveStep
    \/ ClientDeleteStep
    \/ AddPointsStep
    \/ PromoSummaryStep

SpecLedger == Init /\ [][NextLedger]_vars

\* grants, imports and deletions only: no request sets promo_points directly
NextGrantImport ==
    \/ LedgerImportStep
    \/ AddPointsStep
    \/ ClientDeleteStep

SpecGrantImport == Init /\ [][NextGrantImport]_vars

\* the loyalty summary over the point values around the tier thresholds
TierPoints == { 0, 349, 350, 849, 850, 999 }

TierBodies == { ClientBody(NoId, "P1", EmailA, 0, points, None) : points \in TierPoints }

TierSaveStep ==
    \E body \in TierBodies :
        /\ admin_clients_save(body)
        /\ nextClientId' <= MaxLedgerClients + 1

TierAddPointsStep ==
    \E id \in LedgerIds, code \in DOMAIN PromoPoints :
        /\ admin_promo_add_points(id, code)
        /\ Len(promo_logs') <= MaxLogs

TierSummaryStep == \E id \in LedgerIds : admin_promo_summary(id)

NextTiers ==
    \/ TierSaveStep
    \/ TierAddPointsStep
    \/ TierSummaryStep

SpecTiers == Init /\ [][NextTiers]_vars

\* -------------------------------------------------------------------------
\* Properties of the client registry and the loyalty ledger
\* -------------------------------------------------------------------------

SameEmail(e1, e2) == e1 # NoText /\ e2 # NoText /\ Lower(e1) = Lower(e2)

SamePiva(p1, p2) == p1 # None /\ p2 # None /\ p1 = p2

RECURSIVE SumPoints(_, _)
SumPoints(logs, client_id) ==
    IF logs = <<>> THEN 0
    ELSE (IF Head(logs).client_id = client_id THEN Head(logs).points ELSE 0)
         + SumPoints(Tail(logs), client_id)

\* C3 (as claimed): after any sequence of promo-client imports no two client rows
\* share an e-mail (case-insensitively) and no two share a tax id.
C3_NoDuplicateClients ==
    \A a, b \in DOMAIN clients :
        a # b => /\ ~SameEmail(clients[a].email, clients[b].email)
                 /\ ~SamePiva(clients[a].piva, clients[b].piva)

\* C4 (as claimed): every existing client's stored promo_points equals the sum of
\* the points of its promo_logs rows.
C4_CounterEqualsLedger ==
    \A c \in DOMAIN clients : clients[c].promo_points = SumPoints(promo_logs, c)

\* the operations C5 names: a point grant, a promo-client import, a client save
\* that supplies no ticket code
KeepsTicketOp(op) ==
    \/ op.op \in { "add_points", "import_promo" }
    \/ op.op = "client_save" /\ op.saved.promo_ticket_code = None

\* C5: once a client has a ticket code, no later grant, import or save without a
\* ticket code changes or clears it; and a successful grant to an enrolled
\* client leaves it with a ticket code (so the first of two grants generates the
\* one code and the second keeps it).
C5_TicketStable ==
    /\ [][ \A c \in DOMAIN clients :
             ( /\ c \in DOMAIN clients'
               /\ clients[c].promo_ticket_code # None
               /\ KeepsTicketOp(lastOp') )
             => clients'[c].promo_ticket_code = clients[c].promo_ticket_code ]_vars
    /\ []( (lastOp.op = "add_points" /\ lastOp.status = 200
                                      /\ lastOp.client.promo_enabled = 1)
           => lastOp.client.promo_ticket_code \in TicketCodes )

\* two grants in a row went to one enrolled client, which holds a generated code
C5_Witness ==
    /\ lastOp.op = "add_points" /\ lastOp.status = 200
    /\ Len(promo_logs) = 2
    /\ promo_logs[1].client_id = lastOp.client_id
    /\ promo_logs[2].client_id = lastOp.client_id
    /\ lastOp.client.promo_enabled = 1
    /\ lastOp.client.promo_ticket_code = "XMAS-0000000B"

\* C7 (as claimed): no step lowers the stored promo_points of a client.
C7_PointsNeverDecrease ==
    [][ \A c \in DOMAIN clients :
          c \in DOMAIN clients' => clients'[c].promo_points >= clients[c].promo_points ]_vars

\* the tier the claim gives for a number of points
ClaimedTier(points) ==
    CASE points >= 1000 -> "max"
      [] points >= 850 /\ points <= 999 -> "tier2"
      [] points >= 350 /\ points <= 849 -> "tier1"
      [] points < 350 -> "base"

\* C10: the tier of a summary is the claimed function of the stored points; base
\* has no prizes and tier1 has exactly three.
C10_TierBoundaries ==
    (lastOp.op \in { "promo_summary", "add_points" } /\ lastOp.status = 200)
    => /\ lastOp.client_id \in DOMAIN clients
       /\ lastOp.summary.points = clients[lastOp.client_id].promo_points
       /\ lastOp.summary.tier = ClaimedTier(clients[lastOp.client_id].promo_points)
       /\ (lastOp.summary.tier = "base" => lastOp.summary.prizes_available = << >>)
       /\ (lastOp.summary.tier = "tier1" => Len(lastOp.summary.prizes_available) = 3)

\* a summary at exactly 350 points, which is tier1 with three prizes
C10_Witness ==
    /\ lastOp.op = "promo_summary" /\ lastOp.status = 200
    /\ lastOp.summary.points = 350
    /\ lastOp.summary.tier = "tier1"
    /\ Len(lastOp.summary.prizes_available) = 3

\* a row the import must reject: neither e-mail nor tax id, or an e-mail that is
\* not of the shape x@y.z
RejectedRow(row) ==
    \/ CleanText(row.email) = NoText /\ CleanOpaque(row.piva) = None
    \/ CleanText(row.email) # NoText /\ ~ValidEmail(CleanText(row.email))

AcceptedRow(row) == ~RejectedRow(row)

\* the accepted rows are for clients that are new and distinct from one another
DistinctNewClients(tbl, rows) ==
    /\ \A i \in DOMAIN rows :
          FindMatches(tbl, CleanText(rows[i].email), CleanOpaque(rows[i].piva)) = {}
    /\ \A i, j \in DOMAIN rows :
          i # j => /\ ~SameEmail(CleanText(rows[i].email), CleanText(rows[j].email))
                   /\ ~SamePiva(CleanOpaque(rows[i].piva), CleanOpaque(rows[j].piva))

\* what C6 says of the import of `sheet` from the tables as they are
IsolatesRejectedRows(sheet) ==
    LET db   == [clients |-> clients, next |-> nextClientId]
        rows == SelectSeq(sheet, NonEmptyRow)
        bad  == { i \in DOMAIN rows : RejectedRow(rows[i]) }
        good == SelectSeq(rows, AcceptedRow)
    IN  \A r \in { ImportPromo(db, sheet) }, only \in { ImportPromo(db, good) } :
          /\ Len(r.errors) = Cardinality(bad)
          /\ { r.errors[k].row : k \in DOMAIN r.errors } = bad
          /\ r.db = only.db
          /\ (bad = DOMAIN rows => r.db = db)
          /\ DistinctNewClients(clients, good) =>
                /\ Cardinality(DOMAIN r.db.clients) = Cardinality(DOMAIN clients) + Len(good)
                /\ r.imported = Len(good)

\* C6: a rejected row is one error entry with its row index, writes nothing, and
\* the other rows of the sheet are imported as if it were not there; N accepted
\* rows for distinct new clients and M rejected rows give N clients and M errors.
\* Stated of the import of every sheet from every reachable content of the
\* clients table.
C6_RowFaultIsolation == \A sheet \in Sheets : IsolatesRejectedRows(sheet)

\* an import whose first row was rejected and whose second row created a client
C6_Witness ==
    /\ lastOp.op = "import_promo" /\ lastOp.status = 200
    /\ lastOp.processed = 2 /\ lastOp.imported = 1
    /\ Len(lastOp.errors) = 1
    /\ lastOp.errors[1].row = 1
    /\ lastOp.errors[1].error = "invalid_email"

\* =========================================================================
\* Catalog and pricing
\* =========================================================================

\* -------------------------------------------------------------------------
\* Bounds of the catalog model
\* -------------------------------------------------------------------------

\* rows of discount_rules
MaxRules == 3

\* rows of price_list_imports, i.e. price-list imports that ran
MaxImports == 2

\* data rows of one uploaded price list
MaxListRows == 2

\* -------------------------------------------------------------------------
\* Optional numbers and Python truthiness
\* -------------------------------------------------------------------------

\* an optional number is <<>> (None, SQL NULL) or <<n>>
Null == <<>>

Num(n) == << n >>

\* bool(v) of an optional number: None and 0 are false
Truthy(v) == v # Null /\ v[1] # 0

\* `a or b` on optional numbers
Or(a, b) == IF Truthy(a) THEN a ELSE b

\* bool(s) of an optional text: None and "" are false
TruthyText(s) == s # NoText

\* `a or b` on optional texts
OrText(a, b) == IF TruthyText(a) THEN a ELSE b

Max(a, b) == IF a >= b THEN a ELSE b

\* -------------------------------------------------------------------------
\* Cell parsing: safe_float and safe_int
\* -------------------------------------------------------------------------

Digits == { "0", "1", "2", "3", "4", "5", "6", "7", "8", "9" }

DigitValue(ch) ==
    CASE ch = "0" -> 0 [] ch = "1" -> 1 [] ch = "2" -> 2 [] ch = "3" -> 3
      [] ch = "4" -> 4 [] ch = "5" -> 5 [] ch = "6" -> 6 [] ch = "7" -> 7
      [] ch = "8" -> 8 [] ch = "9" -> 9

\* str.replace(old, new) for one-character old; new is a sequence of characters
RECURSIVE Replace(_, _, _)
Replace(s, old, new) ==
    IF s = <<>> THEN <<>>
    ELSE (IF Head(s) = old THEN new ELSE << Head(s) >>) \o Replace(Tail(s), old, new)

\* str.count(ch)
Count(s, ch) == Cardinality({ i \in DOMAIN s : s[i] = ch })

\* str.isdigit(): non-empty and only digits
IsDigit(s) == s # <<>> /\ \A i \in DOMAIN s : s[i] \in Digits

\* the value of a string of digits
RECURSIVE DigitsValue(_)
DigitsValue(s) ==
    IF s = <<>> THEN 0 ELSE 10 * DigitsValue(SubSeq(s, 1, Len(s) - 1)) + DigitValue(s[Len(s)])

\* position of the first occurrence of ch in s, which contains it
IndexOf(s, ch) == MinOf({ i \in DOMAIN s : s[i] = ch })

\* float(s), in cents, for the strings of the model: digits with at most one
\* "." and at most two decimals; Null stands for ValueError
ParseFloat(s) ==
    IF Count(s, ".") = 0
    THEN IF IsDigit(s) THEN Num(100 * DigitsValue(s)) ELSE Null
    ELSE IF Count(s, ".") > 1 THEN Null
    ELSE LET dot  == IndexOf(s, ".")
             int  == SubSeq(s, 1, dot - 1)
             frac == SubSeq(s, dot + 1, Len(s))
         IN  IF /\ int \o frac # <<>>
                /\ \A i \in DOMAIN (int \o frac) : (int \o frac)[i] \in Digits
                /\ Len(frac) <= 2
             THEN Num(100 * DigitsValue(int)
                      + (IF Len(frac) = 1 THEN 10 ELSE 1) * DigitsValue(frac))
             ELSE Null

\* safe_float(value, default): value is the str() of the cell, <<>> for None;
\* the character "E" stands for the euro sign
safe_float(value, default) ==
    LET s  == Strip(value)
        s1 == Replace(Replace(s, " ", <<>>), "E", <<>>)
        s2 == IF Count(s1, ",") = 1 /\ Count(s1, ".") = 0
              THEN Replace(s1, ",", << "." >>) ELSE s1
    IN  IF s = <<>> THEN default
        ELSE IF ParseFloat(s2) = Null THEN default ELSE ParseFloat(s2)

\* str.upper() on the alphabet the model uses
UpperChar(ch) ==
    CASE ch = "a" -> "A"
      [] ch = "d" -> "D"
      [] ch = "n" -> "N"
      [] ch = "s" -> "S"
      [] OTHER -> ch

Upper(s) == [i \in DOMAIN s |-> UpperChar(s[i])]

\* the spellings of "not available" safe_int maps to the default
NotAvailable ==
    { << "N" >>, << "N", "A" >>, << "N", "/", "A" >>, << "N", "D" >>, << "-" >>,
      << "N", "O", "N", " ", "D", "I", "S", "P", "O", "N", "I", "B", "I", "L", "E" >> }

\* int(s) for the strings of the model: digits with an optional sign; Null
\* stands for ValueError
ParseInt(s) ==
    IF IsDigit(s) THEN Num(DigitsValue(s))
    ELSE IF s # <<>> /\ Head(s) = "-" /\ IsDigit(Tail(s)) THEN Num(0 - DigitsValue(Tail(s)))
    ELSE Null

\* safe_int(value, default): value is the str() of the cell, <<>> for None
safe_int(value, default) ==
    LET s       == Strip(value)
        s_clean == Replace(s, " ", <<>>)
        bare    == Replace(Replace(s_clean, ".", <<>>), ",", <<>>)
        s_int   == IF IsDigit(bare) THEN bare ELSE s_clean
    IN  IF s = <<>> THEN default
        ELSE IF Upper(s) \in NotAvailable THEN default
        ELSE IF ParseInt(s_int) = Null THEN default ELSE ParseInt(s_int)

\* -------------------------------------------------------------------------
\* The products table
\* -------------------------------------------------------------------------

\* dict.get(key, default); a dict is a record, an absent key an absent field
Get(d, key, default) == IF key \in DOMAIN d THEN d[key] ELSE default

\* `a or b` on opaque strings: None and "" are false
OrOpaque(a, b) == IF a # None /\ a # "" THEN a ELSE b

\* a dict with no key, e.g. the `extra` of a product that has none
EmptyDict == [ k \in {} |-> None ]

\* the row upsert_product writes for the dict `data`; gallery is the decoded
\* gallery_json (the columns image_thumb, unit, markup_* and
\* discount_*_percent are stored and returned like image_hd and never read by
\* a handler; they are left out)
ProductPayload(data) ==
    [ name                |-> Get(data, "name", NoText),
      codice              |-> Get(data, "codice", NoText),
      image_hd            |-> Get(data, "image_hd", NoText),
      gallery             |-> OrText(Get(data, "gallery", <<>>),
                                     Get(data, "gallery_json", <<>>)),
      description_html    |-> OrText(Get(data, "description_html", NoText),
                                     Get(data, "desc_html", NoText)),
      base_price          |-> Get(data, "base_price", Null),
      price_riv10         |-> Or(Get(data, "price_riv10", Null),
                                 Get(data, "price_rivenditore10", Null)),
      price_riv           |-> Or(Get(data, "price_riv", Null),
                                 Get(data, "price_rivenditore", Null)),
      price_dist          |-> Or(Get(data, "price_dist", Null),
                                 Get(data, "price_distributore", Null)),
      price_distributore  |-> Or(Get(data, "price_distributore", Null),
                                 Get(data, "price_dist", Null)),
      price_rivenditore   |-> Or(Get(data, "price_rivenditore", Null),
                                 Get(data, "price_riv", Null)),
      price_rivenditore10 |-> Or(Get(data, "price_rivenditore10", Null),
                                 Get(data, "price_riv10", Null)),
      qty_stock           |-> Get(data, "qty_stock", Num(0)),
      status              |-> OrOpaque(Get(data, "status", None), "attivo"),
      extra               |-> Get(data, "extra", EmptyDict) ]

\* an upsert whose ON CONFLICT clause leaves extra_json as it was
UpsertKeepExtra(tbl, data) ==
    [ k \in DOMAIN tbl \cup { data.sku } |->
        IF k # data.sku THEN tbl[k]
        ELSE IF k \in DOMAIN tbl
             THEN [ ProductPayload(data) EXCEPT !.extra = tbl[k].extra ]
             ELSE ProductPayload(data) ]

\* INSERT ... ON CONFLICT(sku) DO UPDATE SET every other column
upsert_product(tbl, data) ==
    [ k \in DOMAIN tbl \cup { data.sku } |->
        IF k = data.sku THEN ProductPayload(data) ELSE tbl[k] ]

\* a lookup that never finds a row
NeverHasProduct(tbl, sku) == FALSE

\* get_product_by_sku(sku) returns something (not None)
HasProduct(tbl, sku) == sku \in DOMAIN tbl

\* the dict get_product_by_sku returns for a stored SKU: the columns of the
\* row, the decoded extra, and the aliases desc_html and id
get_product_by_sku(tbl, sku) ==
    [ k \in DOMAIN tbl[sku] \cup { "sku", "desc_html", "id" } |->
        CASE k = "sku" -> sku
          [] k = "id" -> sku
          [] k = "desc_html" -> tbl[sku].description_html
          [] OTHER -> tbl[sku][k] ]

\* DELETE FROM products WHERE sku = ?; the second component is cur.rowcount
delete_product(tbl, sku) ==
    << [ k \in DOMAIN tbl \ { sku } |-> tbl[k] ],
       IF sku \in DOMAIN tbl THEN 1 ELSE 0 >>

\* -------------------------------------------------------------------------
\* The discount_rules table
\* -------------------------------------------------------------------------

\* the offer ids and segments of the model in the order SQLite compares text
\* (byte by byte)
TextOrder == << "X", "Y", "distributore", "ospite", "rivenditore", "rivenditore10" >>

Rank(text) == CHOOSE i \in DOMAIN TextOrder : TextOrder[i] = text

\* row a sorts at or before row b under ORDER BY offer_id, segment, min_amount
RuleLeq(a, b) ==
    \/ Rank(a.offer_id) < Rank(b.offer_id)
    \/ /\ a.offer_id = b.offer_id
       /\ \/ Rank(a.segment) < Rank(b.segment)
          \/ a.segment = b.segment /\ a.min_amount <= b.min_amount

\* `row` placed into the sorted list after every row that sorts at or before it
RECURSIVE InsertSorted(_, _)
InsertSorted(sorted, row) ==
    IF sorted = <<>> THEN << row >>
    ELSE IF RuleLeq(Head(sorted), row)
         THEN << Head(sorted) >> \o InsertSorted(Tail(sorted), row)
         ELSE << row >> \o sorted

\* a listing without ORDER BY: the rows by rowid
ListByRowid(tbl) == tbl

\* SELECT * FROM discount_rules ORDER BY offer_id, segment, min_amount; the
\* table is the sequence of its rows by rowid, rows with equal keys keep it
RECURSIVE list_discount_rules(_)
list_discount_rules(tbl) ==
    IF tbl = <<>> THEN <<>>
    ELSE InsertSorted(list_discount_rules(SubSeq(tbl, 1, Len(tbl) - 1)), tbl[Len(tbl)])

\* a clear that deletes nothing
ClearNothing(tbl, offer_id, segment) == tbl

\* DELETE FROM discount_rules WHERE offer_id = ? AND segment = ?
clear_discount_rules_for_offer_segment(tbl, offer_id, segment) ==
    SelectSeq(tbl, LAMBDA r : ~(r.offer_id = offer_id /\ r.segment = segment))

\* INSERT INTO discount_rules
insert_discount_rule(tbl, offer_id, segment, min_amount, max_amount, discount_percent, valid_until) ==
    Append(tbl, [ offer_id |-> offer_id, segment |-> segment,
                  min_amount |-> min_amount, max_amount |-> max_amount,
                  discount_percent |-> discount_percent,
                  valid_until |-> valid_until ])

\* the rule dict discount_rules_to_configs makes of a row; a max of Null
\* stands for float("inf")
RuleOfRow(row) ==
    [ min |-> row.min_amount, max |-> row.max_amount,
      discount |-> row.discount_percent, valid_until |-> row.valid_until ]

\* configs.setdefault(offer_id, ...) and rules.setdefault(segment, []).append
AddToConfigs(configs, row) ==
    LET at == { i \in DOMAIN configs : configs[i].id = row.offer_id }
        cs == IF at = {} THEN Append(configs, [ id |-> row.offer_id, rules |-> EmptyDict ])
              ELSE configs
        i  == CHOOSE j \in DOMAIN cs : cs[j].id = row.offer_id
        rs == cs[i].rules
        seg_rules == Append(Get(rs, row.segment, <<>>), RuleOfRow(row))
    IN  [ cs EXCEPT ![i].rules =
            [ sg \in DOMAIN rs \cup { row.segment } |->
                IF sg = row.segment THEN seg_rules ELSE rs[sg] ] ]

RECURSIVE ConfigsOf(_)
ConfigsOf(rows) ==
    IF rows = <<>> THEN <<>>
    ELSE AddToConfigs(ConfigsOf(SubSeq(rows, 1, Len(rows) - 1)), rows[Len(rows)])

\* discount_rules_to_configs(): one config per offer, in the order of the listing
discount_rules_to_configs(tbl) == ConfigsOf(list_discount_rules(tbl))

\* -------------------------------------------------------------------------
\* Price resolution
\* -------------------------------------------------------------------------

\* a resolver that never looks at the segment prices
PickBasePriceOnly(product, segment, fallback_base) ==
    IF Truthy(Get(product, "base_price", Null)) THEN product.base_price[1]
    ELSE IF Truthy(fallback_base) THEN fallback_base[1]
    ELSE 0

\* pick_price_for_segment: the unit price, in cents
pick_price_for_segment(product, segment, fallback_base) ==
    LET named(a, b) ==
            IF Get(product, a, Null) # Null THEN Get(product, a, Null)
            ELSE Get(product, b, Null)
        seg_price ==
            CASE segment = "distributore"  -> named("price_distributore", "price_dist")
              [] segment = "rivenditore"   -> named("price_rivenditore", "price_riv")
              [] segment = "rivenditore10" -> named("price_rivenditore10", "price_riv10")
              [] OTHER -> Null
    IN  IF seg_price # Null THEN seg_price[1]
        ELSE IF Truthy(Get(product, "base_price", Null)) THEN product.base_price[1]
        ELSE IF Truthy(fallback_base) THEN fallback_base[1]
        ELSE 0

\* an inner loop that passes over the rules whose valid_until is in the past
RECURSIVE DiscountOfUnexpired(_, _)
DiscountOfUnexpired(rules, amount) ==
    IF rules = <<>> THEN 0
    ELSE IF /\ Head(rules).valid_until \notin { "2020-01-01" }
            /\ amount >= Head(rules).min
            /\ (Head(rules).max = Null \/ amount <= Head(rules).max[1])
         THEN Head(rules).discount
         ELSE DiscountOfUnexpired(Tail(rules), amount)

\* the inner loop of compute_price_with_discounts: the discount of the first
\* rule whose closed interval [min, max] holds the amount, 0 when none does
RECURSIVE DiscountOfRules(_, _)
DiscountOfRules(rules, amount) ==
    IF rules = <<>> THEN 0
    ELSE IF /\ amount >= Head(rules).min
            /\ (Head(rules).max = Null \/ amount <= Head(rules).max[1])
         THEN Head(rules).discount
         ELSE DiscountOfRules(Tail(rules), amount)

\* the outer loop: the configs of the offer, until one gives a discount
RECURSIVE DiscountOfConfigs(_, _, _, _)
DiscountOfConfigs(cfgs, offer_id, segment, amount) ==
    IF cfgs = <<>> THEN 0
    ELSE IF Head(cfgs).id # offer_id
         THEN DiscountOfConfigs(Tail(cfgs), offer_id, segment, amount)
         ELSE LET d == DiscountOfRules(Get(Head(cfgs).rules, segment, <<>>), amount)
              IN  IF d # 0 THEN d
                  ELSE DiscountOfConfigs(Tail(cfgs), offer_id, segment, amount)

\* the result dict of the resolver for a unit price, a line amount and a discount
PriceResult(product, segment, quantity, base_price, amount, discount) ==
    [ sku              |-> Get(product, "sku", NoText),
      base_price       |-> base_price,
      segment          |-> segment,
      quantity         |-> quantity,
      price            |-> amount * (100 - discount),
      discount_applied |-> discount ]

\* a resolver that multiplies by the quantity as it came
ComputeNoFloor(rules_tbl, product, customer_segment, quantity) ==
    LET base_price == pick_price_for_segment(product, customer_segment,
                                             Get(product, "base_price", Num(0)))
        amount     == base_price * quantity
        offer_id   == Get(Get(product, "extra", EmptyDict), "offer_id", None)
        discount   == IF OrOpaque(offer_id, None) = None THEN 0
                      ELSE DiscountOfConfigs(discount_rules_to_configs(rules_tbl),
                                             offer_id, customer_segment, amount)
    IN  PriceResult(product, customer_segment, quantity, base_price, amount, discount)

\* compute_price_with_discounts over the stored rules; price is in 1/100 cent
compute_price_with_discounts(rules_tbl, product, customer_segment, quantity) ==
    LET base_price == pick_price_for_segment(product, customer_segment,
                                             Get(product, "base_price", Num(0)))
        amount     == base_price * Max(1, quantity)
        offer_id   == Get(Get(product, "extra", EmptyDict), "offer_id", None)
        discount   == IF OrOpaque(offer_id, None) = None THEN 0
                      ELSE DiscountOfConfigs(discount_rules_to_configs(rules_tbl),
                                             offer_id, customer_segment, amount)
    IN  PriceResult(product, customer_segment, quantity, base_price, amount, discount)

\* -------------------------------------------------------------------------
\* Handlers of the catalog and of pricing
\* -------------------------------------------------------------------------

\* a pricing handler that lets the request override the catalog row
PricingPrefersCaller(tbl, body) ==
    LET sku == Get(body, "sku", NoText)
        row == IF TruthyText(sku) /\ HasProduct(tbl, sku)
               THEN get_product_by_sku(tbl, sku)
               ELSE [ sku |-> sku, base_price |-> Num(0), extra |-> [ offer_id |-> None ] ]
    IN  [ k \in DOMAIN row |->
            CASE k = "base_price" /\ "base_price" \in DOMAIN body -> body.base_price
              [] k = "extra" /\ "offer_id" \in DOMAIN body -> [ offer_id |-> body.offer_id ]
              [] OTHER -> row[k] ]

\* the product POST /ecom/pricing prices: the catalog row of the SKU, or a
\* product made of the request when the catalog has none
PricingProduct(tbl, body) ==
    LET sku == Get(body, "sku", NoText)
    IN  IF TruthyText(sku) /\ HasProduct(tbl, sku)
        THEN get_product_by_sku(tbl, sku)
        ELSE [ sku        |-> sku,
               base_price |-> Get(body, "base_price", Num(0)),
               extra      |-> [ offer_id |-> Get(body, "offer_id", None) ] ]

\* POST /ecom/pricing; lastOp keeps the request next to the response
PricingResponse(body) ==
    [ op |-> "pricing", status |-> 200, request |-> body,
      result |-> compute_price_with_discounts(
                     discount_rules, PricingProduct(products, body),
                     Get(body, "customer_segment", "ospite"),
                     Get(body, "quantity", 1)) ]

\* a pricing handler that keeps the product it made of the request in the catalog
PricingKeepsProduct(body) ==
    /\ lastOp' = PricingResponse(body)
    /\ products' = IF TruthyText(Get(body, "sku", NoText)) /\ ~HasProduct(products, body.sku)
                   THEN upsert_product(products, PricingProduct(products, body))
                   ELSE products
    /\ UNCHANGED <<loop, orderVars, clientVars, discount_rules, price_list_imports, meta>>

pricing(body) ==
    /\ lastOp' = PricingResponse(body)
    /\ UNCHANGED <<loop, orderVars, clientVars, catalogVars>>

\* str(uuid.uuid4()) of a request that names no SKU
Uuids == { << "u", "1" >> }

\* the dict POST /ecom/product/update hands to upsert_product
UpdateProduct(body, sku) ==
    LET prc    == Get(body, "pricing", EmptyDict)
        prices == Get(prc, "prices", EmptyDict)
    IN  [ sku              |-> sku,
          name             |-> Get(body, "name", NoText),
          image_hd         |-> Get(body, "image_hd", NoText),
          gallery          |-> Get(body, "gallery", <<>>),
          description_html |-> Get(body, "description_html", NoText),
          base_price       |-> Get(prc, "base_price", Null),
          price_riv10      |-> Get(prices, "rivenditore10", Null),
          price_riv        |-> Get(prices, "rivenditore", Null),
          price_dist       |-> Get(prices, "distributore", Null),
          extra            |-> Get(body, "extra", EmptyDict) ]

\* POST /ecom/product/update
product_update(body) ==
    \E sku \in IF TruthyText(Get(body, "sku", NoText)) THEN { body.sku }
               ELSE Uuids \ DOMAIN products :
            /\ products' = upsert_product(products, UpdateProduct(body, sku))
            /\ lastOp' = [ op |-> "product_update", status |-> 200,
                           product |-> get_product_by_sku(products', sku) ]
            /\ UNCHANGED <<loop, orderVars, clientVars, discount_rules, price_list_imports, meta>>

\* the dict POST /admin/products/save hands to upsert_product
SaveProduct(body, sku) ==
    [ sku                 |-> sku,
      name                |-> Get(body, "name", NoText),
      codice              |-> Get(body, "codice", NoText),
      image_hd            |-> Get(body, "image_hd", NoText),
      gallery             |-> Get(body, "gallery", <<>>),
      description_html    |-> OrText(Get(body, "description_html", NoText),
                                     Get(body, "desc_html", NoText)),
      base_price          |-> Get(body, "base_price", Null),
      price_distributore  |-> Get(body, "price_distributore", Null),
      price_rivenditore   |-> Get(body, "price_rivenditore", Null),
      price_rivenditore10 |-> Get(body, "price_rivenditore10", Null),
      qty_stock           |-> Get(body, "qty_stock", Num(0)),
      status              |-> OrOpaque(Get(body, "status", None), "attivo") ]

\* POST /admin/products/save
admin_product_save(body) ==
    \E sku \in IF TruthyText(Get(body, "sku", NoText)) THEN { body.sku }
               ELSE Uuids \ DOMAIN products :
        /\ products' = upsert_product(products, SaveProduct(body, sku))
        /\ lastOp' = [ op |-> "product_save", status |-> 200,
                       product |-> get_product_by_sku(products', sku) ]
        /\ UNCHANGED <<loop, orderVars, clientVars, discount_rules, price_list_imports, meta>>

\* DELETE /admin/products/{sku}
admin_product_delete(sku) ==
    IF ~TruthyText(sku)
    THEN /\ lastOp' = [ op |-> "product_delete", status |-> 400 ]
         /\ UNCHANGED <<loop, orderVars, clientVars, catalogVars>>
    ELSE \E r \in { delete_product(products, sku) } :
            /\ products' = r[1]
            /\ lastOp' = [ op |-> "product_delete",
                           status |-> IF r[2] = 0 THEN 404 ELSE 200 ]
            /\ UNCHANGED <<loop, orderVars, clientVars, discount_rules, price_list_imports, meta>>

\* a rule item of the request is a record of its numeric values by key; the
\* keys whose JSON value is a text that float() rejects are listed under "text"
NotNumeric(item, key) == key \in Get(item, "text", {})

\* float(rule.get("min", 0)), float(rule.get("max")) or float(rule.get("discount", 0))
\* raises ValueError
ItemRaises(item) == \E key \in { "min", "max", "discount" } : NotNumeric(item, key)

\* the inserts of one segment of POST /admin/offers/save, after its clear, each
\* committed on its own; ok is FALSE when an item raised, after the inserts of
\* the items before it
RECURSIVE InsertRules(_, _, _, _)
InsertRules(tbl, offer_id, segment, items) ==
    IF items = <<>> THEN [ tbl |-> tbl, ok |-> TRUE ]
    ELSE IF ItemRaises(Head(items)) THEN [ tbl |-> tbl, ok |-> FALSE ]
    ELSE InsertRules(
             insert_discount_rule(tbl, offer_id, segment,
                                  Get(Head(items), "min", 0),
                                  Get(Head(items), "max", Null),
                                  Get(Head(items), "discount", 0),
                                  Get(Head(items), "valid_until", None)),
             offer_id, segment, Tail(items))

\* the loop over rules.items(): each segment is cleared, then filled; the loop
\* ends at the first item that raises
RECURSIVE SaveSegments(_, _, _)
SaveSegments(tbl, offer_id, rules) ==
    IF rules = <<>> THEN [ tbl |-> tbl, ok |-> TRUE ]
    ELSE LET r == InsertRules(clear_discount_rules_for_offer_segment(tbl, offer_id,
                                                                     Head(rules).segment),
                              offer_id, Head(rules).segment, Head(rules).items)
         IN  IF r.ok THEN SaveSegments(r.tbl, offer_id, Tail(rules)) ELSE r

\* POST /admin/offers/save; body.rules lists the segments of the JSON object in
\* their order, each with its items.  An exception leaves the handler through
\* request_logger_middleware, which answers 500.
admin_offers_save(body) ==
    IF OrOpaque(Get(body, "id", None), None) = None
    THEN /\ lastOp' = [ op |-> "offers_save", status |-> 400 ]
         /\ UNCHANGED <<loop, orderVars, clientVars, catalogVars>>
    ELSE \E r \in { SaveSegments(discount_rules, body.id, Get(body, "rules", <<>>)) } :
            /\ discount_rules' = r.tbl
            /\ lastOp' = [ op |-> "offers_save", status |-> IF r.ok THEN 200 ELSE 500,
                           config |-> body ]
            /\ UNCHANGED <<loop, orderVars, clientVars, products, price_list_imports, meta>>

\* GET /admin/offers/all
admin_offers_all ==
    /\ lastOp' = [ op |-> "offers_all", status |-> 200,
                   configs |-> discount_rules_to_configs(discount_rules) ]
    /\ UNCHANGED <<loop, orderVars, clientVars, catalogVars>>

\* -------------------------------------------------------------------------
\* The price-list import
\* -------------------------------------------------------------------------

\* codice or descrizione[:20] of a data row
ListRowSku(row) ==
    LET codice      == Strip(row.codice)
        descrizione == Strip(row.descrizione)
    IN  OrText(codice, SubSeq(descrizione, 1,
                              IF Len(descrizione) < 20 THEN Len(descrizione) ELSE 20))

\* one data row of the price list: a record of the str() of its cells by
\* column, <<>> for an empty cell or a column the header lacks
PriceListRow(acc, row) ==
    LET codice      == Strip(row.codice)
        descrizione == Strip(row.descrizione)
        sku         == ListRowSku(row)
        status_norm == IF row.status # <<>> THEN Upper(Strip(row.status)) ELSE << "N" >>
        product_data ==
            [ sku                 |-> sku,
              codice              |-> OrText(codice, sku),
              name                |-> OrText(descrizione, sku),
              desc_html           |-> descrizione,
              image_hd            |-> NoText,
              gallery             |-> <<>>,
              base_price          |-> safe_float(row.prezzo_rivenditore, Num(0)),
              price_distributore  |-> safe_float(row.prezzo_distributore, Num(0)),
              price_rivenditore   |-> safe_float(row.prezzo_rivenditore, Num(0)),
              price_rivenditore10 |-> safe_float(row.prezzo_rivenditore10, Num(0)),
              qty_stock           |-> safe_int(row.qty_stock, Num(0)),
              status              |-> IF status_norm = << "S" >> THEN "attivo"
                                      ELSE "non_disponibile" ]
    IN  IF ~TruthyText(codice) /\ ~TruthyText(descrizione)
        THEN [ acc EXCEPT !.skipped = @ + 1 ]
        ELSE [ acc EXCEPT
                 !.products = upsert_product(acc.products, product_data),
                 !.inserted = IF HasProduct(acc.products, sku) THEN @ ELSE @ + 1,
                 !.updated  = IF HasProduct(acc.products, sku) THEN @ + 1 ELSE @ ]

RECURSIVE PriceListRows(_, _)
PriceListRows(acc, rows) ==
    IF rows = <<>> THEN acc
    ELSE PriceListRows(PriceListRow(acc, Head(rows)), Tail(rows))

\* the loop of admin_price_list_import over the data rows, from the table tbl
PriceListImport(tbl, rows) ==
    PriceListRows([ products |-> tbl, inserted |-> 0, updated |-> 0, skipped |-> 0 ],
                  rows)

\* POST /admin/price_list/import.  upload.kind is "none" without a file part,
\* "empty" for a part of zero bytes, "xlsx" for a workbook.  An instant is
\* the ordinal of the import that read the clock.  lastOp keeps the request
\* next to the response.
admin_price_list_import(upload) ==
    IF upload.kind # "xlsx"
    THEN /\ lastOp' = [ op |-> "price_list_import", status |-> 400 ]
         /\ UNCHANGED <<loop, orderVars, clientVars, catalogVars>>
    ELSE \E r \in { PriceListImport(products, upload.rows) } :
         \E now \in { Len(price_list_imports) + 1 } :
            /\ products' = r.products
            /\ price_list_imports' =
                   Append(price_list_imports,
                          [ imported_at    |-> now,
                            file_name      |-> OrOpaque(upload.filename, "listino.xls"),
                            total_products |-> r.inserted + r.updated ])
            /\ meta' = [ k \in DOMAIN meta \cup { "price_list_last_import_at" } |->
                           IF k = "price_list_last_import_at" THEN now ELSE meta[k] ]
            /\ lastOp' = [ op |-> "price_list_import", status |-> 200,
                           request |-> upload,
                           inserted |-> r.inserted, updated |-> r.updated,
                           skipped |-> r.skipped, products |-> r.products,
                           last_import_at |-> now ]
            /\ UNCHANGED <<loop, orderVars, clientVars, discount_rules>>

\* -------------------------------------------------------------------------
\* Requests of the pricing model
\* -------------------------------------------------------------------------

SkuA == << "A", "1" >>

SkuZ == << "Z", "9" >>

\* 0-99 at 5 %, 100 and above at 15 %, amounts in cents
BoundaryRules ==
    << [ min |-> 0, max |-> Num(9900), discount |-> 5, valid_until |-> None ],
       [ min |-> 10000, max |-> Null, discount |-> 15, valid_until |-> None ] >>

OfferBodies ==
    { [ id |-> "X", rules |-> << [ segment |-> "rivenditore", items |-> BoundaryRules ] >> ],
      [ id |-> "X", rules |-> << [ segment |-> "rivenditore", items |->
            << [ min |-> 0, max |-> Null, discount |-> 10,
                 valid_until |-> "2020-01-01" ] >> ] >> ],
      [ id |-> "Y", rules |-> << [ segment |-> "ospite", items |->
            << [ min |-> 5000, discount |-> 20 ] >> ] >> ],
      [ rules |-> <<>> ] }

UpdateBodies ==
    { [ sku |-> SkuA, name |-> << "A" >>,
        pricing |-> [ base_price |-> base, prices |-> [ rivenditore |-> riv ] ],
        extra |-> extra ] :
        base \in { Null, Num(9999), Num(10000) },
        riv \in { Null, Num(5000) },
        extra \in { EmptyDict, [ offer_id |-> "X" ] } }

PricingBodies ==
    { [ sku |-> sku, customer_segment |-> seg, quantity |-> q,
        base_price |-> Num(9999), offer_id |-> offer ] :
        sku \in { SkuA, SkuZ }, seg \in { "rivenditore", "rivenditore10", "ospite" },
        q \in { 0 - 1, 0, 1, 2 }, offer \in { None, "X", "Y" } }
    \cup { [ sku |-> SkuA ], [ base_price |-> Num(10000), offer_id |-> "X",
                              customer_segment |-> "rivenditore" ] }

OffersSaveStep ==
    \E body \in OfferBodies :
        /\ admin_offers_save(body)
        /\ Len(discount_rules') <= MaxRules

ProductUpdateStep == \E body \in UpdateBodies : product_update(body)

PricingStep == \E body \in PricingBodies : pricing(body)

PricingDeleteStep == \E sku \in { SkuA, NoText } : admin_product_delete(sku)

NextPricing ==
    \/ OffersSaveStep
    \/ ProductUpdateStep
    \/ PricingDeleteStep
    \/ PricingStep

SpecPricing == Init /\ [][NextPricing]_vars

\* -------------------------------------------------------------------------
\* Properties of price resolution
\* -------------------------------------------------------------------------

\* the last request was a pricing request
Priced == lastOp.op = "pricing"

\* the product the last pricing request priced (pricing writes no table, so
\* the tables are the ones it read)
PricedProduct == PricingProduct(products, lastOp.request)

PricedOffer == Get(Get(PricedProduct, "extra", EmptyDict), "offer_id", None)

\* the line amount of the last pricing response, in cents
PricedAmount == lastOp.result.base_price * Max(1, lastOp.result.quantity)

\* the rules stored for (offer_id, segment), by rowid
StoredRules(offer_id, segment) ==
    SelectSeq(discount_rules, LAMBDA r : r.offer_id = offer_id /\ r.segment = segment)

\* the rules of offer X / segment rivenditore are the two of BoundaryRules
BoundaryRulesStored ==
    LET rows == StoredRules("X", "rivenditore")
    IN  /\ Len(rows) = 2
        /\ { RuleOfRow(rows[i]) : i \in DOMAIN rows } =
           { BoundaryRules[i] : i \in DOMAIN BoundaryRules }

\* C1: with the rules {min 0, max 99, 5 %} and {min 100, no max, 15 %} stored
\* for offer X / segment rivenditore, a pricing response for a product tied to
\* offer X in that segment carries 5 % when the line amount is 99.99, 15 % when
\* it is 100.00, and one of the two for every line amount >= 0.
C1_BracketBoundary ==
    (Priced /\ BoundaryRulesStored /\ PricedOffer = "X"
            /\ lastOp.result.segment = "rivenditore") =>
        /\ PricedAmount = 9999 => lastOp.result.discount_applied = 5
        /\ PricedAmount = 10000 => lastOp.result.discount_applied = 15
        /\ PricedAmount >= 0 => lastOp.result.discount_applied \in { 5, 15 }

\* the non-null values the product stores for the segment, under either of
\* the two column names
SegmentPrices(product, segment) ==
    LET cols == CASE segment = "distributore"  -> { "price_distributore", "price_dist" }
                  [] segment = "rivenditore"   -> { "price_rivenditore", "price_riv" }
                  [] segment = "rivenditore10" -> { "price_rivenditore10", "price_riv10" }
                  [] OTHER -> {}
    IN  { Get(product, c, Null)[1] : c \in { c \in cols : Get(product, c, Null) # Null } }

\* the base price of the product as a unit price: 0 when it has none
BasePriceOf(product) ==
    IF Get(product, "base_price", Null) = Null THEN 0 ELSE product.base_price[1]

\* C8: in every pricing response the unit price is the product's base price when
\* the product stores no price for the segment (null, or a segment outside
\* distributore / rivenditore / rivenditore10), and the stored segment price
\* when there is one, whatever the base price.
C8_SegmentFallback ==
    Priced =>
        IF SegmentPrices(PricedProduct, lastOp.result.segment) = {}
        THEN lastOp.result.base_price = BasePriceOf(PricedProduct)
        ELSE lastOp.result.base_price \in SegmentPrices(PricedProduct, lastOp.result.segment)

\* a catalog product without a rivenditore10 price was priced at its base price
C8_Witness ==
    /\ Priced
    /\ HasProduct(products, SkuA)
    /\ lastOp.request = [ sku |-> SkuA, customer_segment |-> "rivenditore10",
                          quantity |-> 1, base_price |-> Num(9999), offer_id |-> None ]
    /\ products[SkuA].price_rivenditore10 = Null
    /\ products[SkuA].price_rivenditore = Num(5000)
    /\ products[SkuA].base_price = Num(10000)
    /\ lastOp.result.base_price = 10000

\* the fields of a pricing result other than the echoed quantity
PricedFields(r) ==
    [ sku |-> r.sku, base_price |-> r.base_price, segment |-> r.segment,
      price |-> r.price, discount_applied |-> r.discount_applied ]

\* the result of pricing the same product and segment with quantity 1
ResultWithQuantityOne ==
    compute_price_with_discounts(discount_rules, PricedProduct, lastOp.result.segment, 1)

\* C9 as stated: a pricing response for a quantity of 0 or less is the result
\* of the same request with quantity 1.
C9_SameResultAsQuantityOne ==
    (Priced /\ lastOp.result.quantity <= 0) => lastOp.result = ResultWithQuantityOne

\* C9: a pricing response for a quantity of 0 or less carries the sku, unit
\* price, segment, final price and discount of the same request with quantity
\* 1; its quantity field echoes the quantity of the request.
C9_QuantityFloor ==
    (Priced /\ lastOp.result.quantity <= 0) =>
        /\ PricedFields(lastOp.result) = PricedFields(ResultWithQuantityOne)
        /\ lastOp.result.quantity = Get(lastOp.request, "quantity", 1)

\* a discounted catalog product was priced with quantity 0
C9_Witness ==
    /\ Priced
    /\ lastOp.result.quantity = 0
    /\ HasProduct(products, lastOp.result.sku)
    /\ lastOp.result.discount_applied = 15
    /\ lastOp.result.price = 10000 * 85

\* -------------------------------------------------------------------------
\* Requests of the catalog model
\* -------------------------------------------------------------------------

ListRow(codice, descrizione, dist, riv, riv10, qty, status) ==
    [ codice |-> codice, descrizione |-> descrizione,
      prezzo_distributore |-> dist, prezzo_rivenditore |-> riv,
      prezzo_rivenditore10 |-> riv10, qty_stock |-> qty, status |-> status ]

\* a description of 21 characters, and one that shares its first 20
LongText == [ i \in 1..21 |-> "x" ]

LongTextOther == [ i \in 1..21 |-> IF i = 21 THEN "y" ELSE "x" ]

ListRowPool ==
    { ListRow(<< "A", "1" >>, << "a" >>, << "1", "2", ",", "5", "0" >>, << "1", "0" >>,
              <<>>, << "5" >>, << "S" >>),
      ListRow(<< " ", "A", "1" >>, << "b" >>, <<>>, << "9", ".", "9", "9" >>,
              << "E", " ", "8" >>, << "n", "/", "a" >>, << "n" >>),
      ListRow(<<>>, LongText, << "1", ".", "2", "3", "4", ",", "5", "0" >>, << "a" >>,
              << "7" >>, << "5", ".", "0" >>, << " ", "s" >>),
      ListRow(<<>>, LongTextOther, <<>>, << "3" >>, <<>>, << "-", "3" >>, <<>>),
      ListRow(<< " " >>, <<>>, << "1" >>, << "1" >>, << "1" >>, << "1" >>, << "S" >>) }

\* uploads: no file part, an empty file, workbooks of up to MaxListRows rows
Uploads ==
    { [ kind |-> "none" ], [ kind |-> "empty" ],
      [ kind |-> "xlsx", filename |-> None, rows |-> <<>> ] }
    \cup { [ kind |-> "xlsx", filename |-> "listino.xlsx", rows |-> rows ] :
             rows \in SeqsUpTo(ListRowPool, MaxListRows) \ { <<>> } }

SaveProductBodies ==
    { [ sku |-> SkuA, name |-> << "A" >>, base_price |-> Num(1000),
        price_rivenditore |-> riv, qty_stock |-> extra[1], status |-> extra[2] ] :
        riv \in { Null, Num(0), Num(900) },
        extra \in { << Null, None >>, << Num(7), "non_disponibile" >> } }
    \cup { [ name |-> << "U" >> ] }

PriceListImportStep ==
    \E upload \in Uploads :
        /\ admin_price_list_import(upload)
        /\ Len(price_list_imports') <= MaxImports

ProductSaveStep == \E body \in SaveProductBodies : admin_product_save(body)

ProductDeleteStep ==
    \E sku \in { SkuA, SubSeq(LongText, 1, 20), NoText } : admin_product_delete(sku)

NextCatalog ==
    \/ PriceListImportStep
    \/ ProductSaveStep
    \/ ProductDeleteStep

SpecCatalog == Init /\ [][NextCatalog]_vars

\* -------------------------------------------------------------------------
\* Properties of the price-list import
\* -------------------------------------------------------------------------

\* the last request was a price-list import that ran to its end
Imported(op) == op.op = "price_list_import" /\ op.status = 200

\* C2: when a price-list import that ran to its end is followed at once by an
\* import of the same workbook, the second leaves the products table as the
\* first left it and reports inserted = 0.
C2_ImportIdempotent ==
    [][ ( /\ Imported(lastOp)
          /\ Imported(lastOp')
          /\ Len(price_list_imports') = Len(price_list_imports) + 1
          /\ lastOp'.request = lastOp.request )
        => /\ products' = products
           /\ lastOp'.inserted = 0
           /\ lastOp'.updated = lastOp.inserted + lastOp.updated ]_vars

\* a workbook of two rows has been imported twice: the second import counted
\* both rows as updates of what the catalog held
C2_Witness ==
    /\ Imported(lastOp)
    /\ Len(lastOp.request.rows) = 2
    /\ lastOp.inserted = 0
    /\ lastOp.updated = 2
    /\ Len(price_list_imports) = 2
    /\ price_list_imports[1].total_products = 2
    /\ products = PriceListImport(EmptyTable, lastOp.request.rows).products

\* -------------------------------------------------------------------------
\* Further properties of the loyalty ledger
\* -------------------------------------------------------------------------

\* C11: a grant with a known action code to a client id that names no client
\* row answers 404 (client_not_found) and leaves the clients table, the id
\* counter and the ledger as they were.
C11_GrantNotFound ==
    [][ \A id \in LedgerIds \ { NoId }, code \in DOMAIN PromoPoints :
          ( id \notin DOMAIN clients /\ admin_promo_add_points(id, code) )
          => /\ lastOp'.status = 404
             /\ UNCHANGED <<clients, nextClientId, promo_logs>> ]_vars

\* a grant to a client that was deleted after an earlier grant was refused
C11_Witness ==
    /\ lastOp.op = "add_points" /\ lastOp.status = 404
    /\ lastOp.client_id \notin DOMAIN clients
    /\ Len(promo_logs) = 1
    /\ promo_logs[1].client_id = lastOp.client_id

\* -------------------------------------------------------------------------
\* Requests of the discount-rule model
\* -------------------------------------------------------------------------

\* one bracket of a request
Item(min, max, discount) == [ min |-> min, max |-> max, discount |-> discount ]

\* a bracket whose discount is a text that is no number
ItemBadDiscount == [ min |-> 0, max |-> Null, text |-> { "discount" } ]

\* a bracket whose min is a text that is no number
ItemBadMin == [ max |-> Null, discount |-> 5, text |-> { "min" } ]

Segment(segment, items) == [ segment |-> segment, items |-> items ]

RuleBodies ==
    { [ id |-> "X", rules |-> << Segment("rivenditore", BoundaryRules) >> ],
      [ id |-> "X", rules |-> << Segment("rivenditore", << Item(0, Null, 10) >>),
                                 Segment("ospite", << Item(5000, Num(9000), 20) >>) >> ],
      [ id |-> "X", rules |-> << Segment("rivenditore", <<>>) >> ],
      [ id |-> "Y", rules |-> << Segment("rivenditore", << Item(0, Null, 30) >>) >> ],
      [ id |-> "X", rules |-> << Segment("rivenditore",
                                         << Item(0, Null, 7), ItemBadDiscount >>) >> ],
      [ id |-> "X", rules |-> << Segment("ospite", << Item(0, Null, 8) >>),
                                 Segment("rivenditore", << ItemBadMin >>) >> ],
      [ id |-> None, rules |-> << Segment("ospite", << Item(0, Null, 8) >>) >> ] }

RulePricingBodies ==
    { [ sku |-> SkuZ, customer_segment |-> seg, quantity |-> 1,
        base_price |-> Num(9999), offer_id |-> offer ] :
        seg \in { "rivenditore", "ospite" }, offer \in { "X", "Y" } }

RulesSaveStep ==
    \E body \in RuleBodies :
        /\ admin_offers_save(body)
        /\ Len(discount_rules') <= MaxRules

RulesListStep == admin_offers_all

RulesPricingStep == \E body \in RulePricingBodies : pricing(body)

NextRules ==
    \/ RulesSaveStep
    \/ RulesListStep
    \/ RulesPricingStep

SpecRules == Init /\ [][NextRules]_vars

\* -------------------------------------------------------------------------
\* Properties of the discount-rule save
\* -------------------------------------------------------------------------

OfferIds == { "X", "Y" }

Segments == { "distributore", "ospite", "rivenditore", "rivenditore10" }

\* the stored rules of (offer_id, segment) in a rule table, by rowid
RulesIn(tbl, offer_id, segment) ==
    LET rows == SelectSeq(tbl, LAMBDA r : r.offer_id = offer_id /\ r.segment = segment)
    IN  [ i \in DOMAIN rows |-> RuleOfRow(rows[i]) ]

\* the rule a bracket of the request stands for
RuleOfItem(item) ==
    [ min |-> Get(item, "min", 0), max |-> Get(item, "max", Null),
      discount |-> Get(item, "discount", 0),
      valid_until |-> Get(item, "valid_until", None) ]

\* the rules the request gives for a segment it names
RulesOfBody(body, segment) ==
    LET s == CHOOSE i \in DOMAIN body.rules : body.rules[i].segment = segment
    IN  [ i \in DOMAIN body.rules[s].items |-> RuleOfItem(body.rules[s].items[i]) ]

SegmentsOfBody(body) == { body.rules[i].segment : i \in DOMAIN body.rules }

\* the step is a save of rules that answered with `status`
SavedRules(status) ==
    /\ lastOp'.op = "offers_save"
    /\ lastOp'.status = status
    /\ \E body \in RuleBodies : lastOp'.config = body /\ admin_offers_save(body)

\* C12: after a save that answered 200, the stored rules of (O, s) are, for
\* every segment s of the request, the brackets the request gives for s in
\* their order, and the stored rules of every other (offer, segment) pair are
\* the ones from before the save.
C12_FullReplacePerSegment ==
    [][ SavedRules(200) =>
          \A o \in OfferIds, s \in Segments :
             RulesIn(discount_rules', o, s) =
                IF o = lastOp'.config.id /\ s \in SegmentsOfBody(lastOp'.config)
                THEN RulesOfBody(lastOp'.config, s)
                ELSE RulesIn(discount_rules, o, s) ]_vars

\* a save gave offer X one bracket for rivenditore and one for ospite; the rule
\* of offer Y stored before it is still there
C12_Witness ==
    /\ lastOp.op = "offers_save" /\ lastOp.status = 200
    /\ lastOp.config.id = "X"
    /\ Len(RulesIn(discount_rules, "X", "rivenditore")) = 1
    /\ Len(RulesIn(discount_rules, "X", "ospite")) = 1
    /\ Len(RulesIn(discount_rules, "Y", "rivenditore")) = 1
    /\ discount_rules[1].offer_id = "Y"

\* C13 (as claimed): after a save of rules, whether it answered 200 or failed
\* part-way with 500, the stored rules of every (offer, segment) pair are either
\* the ones from before the call or the whole list the request gives for it.
C13_AllOrNothing ==
    [][ (SavedRules(200) \/ SavedRules(500)) =>
          \A o \in OfferIds, s \in Segments :
             \/ RulesIn(discount_rules', o, s) = RulesIn(discount_rules, o, s)
             \/ /\ o = lastOp'.config.id
                /\ s \in SegmentsOfBody(lastOp'.config)
                /\ RulesIn(discount_rules', o, s) = RulesOfBody(lastOp'.config, s) ]_vars

\* -------------------------------------------------------------------------
\* The handlers on the event loop
\* -------------------------------------------------------------------------

\* requests in flight at once
MaxTasks == 2

\* an event loop on which a coroutine may run while another holds the thread
LoopAlwaysFree == TRUE

\* web.run_app runs every handler as a coroutine on one event loop in one
\* thread: a coroutine gets the thread only when none is running, and keeps it
\* until its next await or its return.  loop.running is the task that holds
\* the thread, NoId when the loop is idle.
LoopFree == loop.running = NoId

\* the loop without the task t, idle
TaskDone(t) ==
    [ tasks |-> [ u \in DOMAIN loop.tasks \ { t } |-> loop.tasks[u] ], running |-> NoId ]

\* the loop with the task t at a new position, holding the thread
TaskAt(t, pc, k, j) ==
    [ tasks |-> [ loop.tasks EXCEPT ![t] =
                    [ op |-> @.op, body |-> @.body, pc |-> pc, k |-> k, j |-> j ] ],
      running |-> t ]

\* a POST request arrives: its handler starts and suspends at
\* `body = await request.json()`
Arrive(op, body) ==
    /\ LoopFree
    /\ DOMAIN loop.tasks # 1..MaxTasks
    /\ loop' = [ loop EXCEPT !.tasks =
                   [ u \in DOMAIN loop.tasks \cup { MinOf((1..MaxTasks) \ DOMAIN loop.tasks) } |->
                       IF u \in DOMAIN loop.tasks THEN loop.tasks[u]
                       ELSE [ op |-> op, body |-> body, pc |-> "await_body", k |-> 0, j |-> 0 ] ] ]
    /\ UNCHANGED <<orderVars, clientVars, catalogVars, lastOp>>

\* admin_offers_save resumes with the body: the check of the offer id
SaveResume(t) ==
    /\ LoopFree
    /\ loop.tasks[t].op = "offers_save" /\ loop.tasks[t].pc = "await_body"
    /\ IF OrOpaque(Get(loop.tasks[t].body, "id", None), None) = None
       THEN /\ lastOp' = [ op |-> "offers_save", status |-> 400 ]
            /\ loop' = TaskDone(t)
       ELSE /\ loop' = TaskAt(t, "clear", 1, 0)
            /\ UNCHANGED lastOp
    /\ UNCHANGED <<orderVars, clientVars, catalogVars>>

\* the segments of the request of a task
TaskRules(task) == Get(task.body, "rules", <<>>)

\* clear_discount_rules_for_offer_segment for the k-th segment
SaveClear(t) ==
    LET task == loop.tasks[t]
    IN  /\ loop.running = t
        /\ task.pc = "clear" /\ task.k <= Len(TaskRules(task))
        /\ discount_rules' = clear_discount_rules_for_offer_segment(
                                 discount_rules, task.body.id, TaskRules(task)[task.k].segment)
        /\ loop' = TaskAt(t, "insert", task.k, 1)
        /\ UNCHANGED <<orderVars, clientVars, products, price_list_imports, meta, lastOp>>

\* one turn of `for rule in items`: the insert of the j-th bracket of the k-th
\* segment, the exception its values raise, or the end of the inner loop
SaveInsert(t) ==
    LET task  == loop.tasks[t]
        seg   == TaskRules(task)[task.k]
    IN  /\ loop.running = t
        /\ task.pc = "insert"
        /\ IF task.j > Len(seg.items)
           THEN /\ loop' = TaskAt(t, "clear", task.k + 1, 0)
                /\ UNCHANGED <<discount_rules, lastOp>>
           ELSE IF ItemRaises(seg.items[task.j])
           THEN /\ lastOp' = [ op |-> "offers_save", status |-> 500, config |-> task.body ]
                /\ loop' = TaskDone(t)
                /\ UNCHANGED discount_rules
           ELSE /\ discount_rules' =
                      insert_discount_rule(discount_rules, task.body.id, seg.segment,
                                           Get(seg.items[task.j], "min", 0),
                                           Get(seg.items[task.j], "max", Null),
                                           Get(seg.items[task.j], "discount", 0),
                                           Get(seg.items[task.j], "valid_until", None))
                /\ loop' = TaskAt(t, "insert", task.k, task.j + 1)
                /\ UNCHANGED lastOp
        /\ UNCHANGED <<orderVars, clientVars, products, price_list_imports, meta>>

\* the response of admin_offers_save after the last segment
SaveReturn(t) ==
    LET task == loop.tasks[t]
    IN  /\ loop.running = t
        /\ task.pc = "clear" /\ task.k > Len(TaskRules(task))
        /\ lastOp' = [ op |-> "offers_save", status |-> 200, config |-> task.body ]
        /\ loop' = TaskDone(t)
        /\ UNCHANGED <<orderVars, clientVars, catalogVars>>

\* pricing resumes with the body and runs to its response without an await
PricingRun(t) ==
    /\ LoopFree
    /\ loop.tasks[t].op = "pricing" /\ loop.tasks[t].pc = "await_body"
    /\ lastOp' = PricingResponse(loop.tasks[t].body)
    /\ loop' = TaskDone(t)
    /\ UNCHANGED <<orderVars, clientVars, catalogVars>>

\* GET /admin/offers/all has no await: it runs whole when the loop is idle
ListRun ==
    /\ LoopFree
    /\ lastOp' = [ op |-> "offers_all", status |-> 200,
                   configs |-> discount_rules_to_configs(discount_rules) ]
    /\ UNCHANGED <<loop, orderVars, clientVars, catalogVars>>

\* the event loop with up to MaxTasks requests in flight: rule saves and
\* pricing requests arrive at any time, the listing runs at any idle moment
SaveArriveStep == \E body \in RuleBodies : Arrive("offers_save", body)

PricingArriveStep == \E body \in RulePricingBodies : Arrive("pricing", body)

SaveResumeStep ==
    \E t \in DOMAIN loop.tasks :
        /\ SaveResume(t)
        /\ Len(SaveSegments(discount_rules, Get(loop.tasks[t].body, "id", None),
                            TaskRules(loop.tasks[t])).tbl) <= MaxRules

SaveClearStep == \E t \in DOMAIN loop.tasks : SaveClear(t)

SaveInsertStep == \E t \in DOMAIN loop.tasks : SaveInsert(t)

SaveReturnStep == \E t \in DOMAIN loop.tasks : SaveReturn(t)

PricingRunStep == \E t \in DOMAIN loop.tasks : PricingRun(t)

NextLoop ==
    \/ SaveArriveStep
    \/ PricingArriveStep
    \/ SaveResumeStep
    \/ SaveClearStep
    \/ SaveInsertStep
    \/ SaveReturnStep
    \/ PricingRunStep
    \/ ListRun

SpecLoop == Init /\ [][NextLoop]_vars

\* the save of a task has deleted the rules of a segment and has not yet
\* inserted all the brackets of the request for it
HalfDone(task) ==
    /\ task.op = "offers_save"
    /\ task.pc = "insert"
    /\ task.j <= Len(TaskRules(task)[task.k].items)

\* the step is a pricing request or a rule listing reading the rule table
ReadsRules == ListRun \/ \E t \in DOMAIN loop.tasks : PricingRun(t)

MaxOrderId == 4

\* days that pass while the model runs
MaxDays == 2

\* --retention-days when the argument is not given
DefaultRetentionDays == 31

\* a date cell written in one of the patterns parse_date knows
DateCell(day) == [ pattern |-> "%d/%m/%Y", day |-> day ]

\* a date cell no pattern reads, and an empty one
BadDateCell == [ pattern |-> "?" ]

NoDateCell == [ pattern |-> "" ]

DatePatterns == { "%d/%m/%Y", "%d/%m/%Y %H:%M", "%Y-%m-%d", "%Y-%m-%d %H:%M:%S" }

\* the ISO day of a cell, or None
parse_date(value) == IF value.pattern \in DatePatterns THEN Num(value.day) ELSE Null

\* a total cell: a number in cents, a text that is no number, or empty
TotalCell(cents) == [ kind |-> "number", cents |-> cents ]

BadTotalCell == [ kind |-> "text" ]

NoTotalCell == [ kind |-> "" ]

safe_number(value) == IF value.kind = "number" THEN Num(value.cents) ELSE Null

\* EMAIL_RE.match on the addresses of the model
ValidEmails == { "a@x.it", "b@y.it" }

\* the record of a row of the file, or the reason it is discarded
normalize_row(raw) ==
    LET document_number == raw.document_number
        customer_email  == raw.customer_email
        total_amount    == safe_number(raw.total_amount)
    IN  IF document_number = ""
        THEN [ error |-> "missing_document_number" ]
        ELSE IF customer_email = "" \/ customer_email \notin ValidEmails
        THEN [ error |-> "invalid_email" ]
        ELSE IF raw.total_amount.kind # "" /\ total_amount = Null
        THEN [ error |-> "invalid_total_amount" ]
        ELSE [ error           |-> None,
               document_number |-> document_number,
               customer_email  |-> customer_email,
               order_date      |-> parse_date(raw.order_date),
               total_amount    |-> total_amount,
               external_id     |-> document_number ]

RECURSIVE load_orders(_)
\* the valid records of the rows, in the order of the file, and the discarded count
load_orders(rows) ==
    IF rows = <<>> THEN [ records |-> <<>>, discarded |-> 0 ]
    ELSE LET rest == load_orders(Tail(rows))
             n    == normalize_row(Head(rows))
         IN  IF n.error # None
             THEN [ records |-> rest.records, discarded |-> rest.discarded + 1 ]
             ELSE [ records |-> <<n>> \o rest.records, discarded |-> rest.discarded ]

\* date(order_date) < date(threshold): NULL compares as NULL and is not selected
OlderThan(o, now, days) == o.order_date # Null /\ o.order_date[1] < now - days

\* the orders left by DELETE FROM orders WHERE date(order_date) < date(now - days)
delete_orders_older_than(tbl, now, days) == SelectSeq(tbl, LAMBDA o : ~OlderThan(o, now, days))

RECURSIVE bulk_insert_orders(_, _, _)
\* the orders after executemany INSERT of the records, ids counted from next_id
bulk_insert_orders(tbl, next_id, records) ==
    IF records = <<>> THEN tbl
    ELSE bulk_insert_orders(
             Append(tbl, [ id              |-> next_id,
                           document_number |-> Head(records).document_number,
                           customer_email  |-> Head(records).customer_email,
                           order_date      |-> Head(records).order_date,
                           total_amount    |-> Head(records).total_amount,
                           external_id     |-> Head(records).external_id ]),
             next_id + 1, Tail(records))

\* the second value load_orders returns: idx as the loop left it, counted by
\* enumerate(..., start=2), and 0 when the file has no row
TotalRows(rows) == IF rows = <<>> THEN 0 ELSE Len(rows) + 1

\* one run of scripts/import_orders.py on the file with --retention-days
main(file, retention_days) ==
    LET request == [ file |-> file, retention_days |-> retention_days, at |-> today ]
    IN  IF ~file.exists
        THEN /\ lastOp' = [ op |-> "import_orders", request |-> request,
                            outcome |-> "input_not_found" ]
             /\ UNCHANGED <<orders, nextOrderId>>
        ELSE \E kept \in { delete_orders_older_than(orders, today, retention_days) } :
             IF ~file.readable
             THEN /\ orders' = kept
                  /\ lastOp' = [ op |-> "import_orders", request |-> request,
                                 outcome |-> "unreadable",
                                 removed |-> Len(orders) - Len(kept) ]
                  /\ UNCHANGED nextOrderId
             ELSE \E loaded \in { load_orders(file.rows) } :
                  /\ orders' = bulk_insert_orders(kept, nextOrderId, loaded.records)
                  /\ nextOrderId' = nextOrderId + Len(loaded.records)
                  /\ lastOp' = [ op |-> "import_orders", request |-> request,
                                 outcome   |-> "completed",
                                 removed   |-> Len(orders) - Len(kept),
                                 inserted  |-> Len(loaded.records),
                                 total     |-> IF TotalRows(file.rows) # 0
                                               THEN TotalRows(file.rows)
                                               ELSE Len(loaded.records) + loaded.discarded,
                                 valid     |-> Len(loaded.records),
                                 discarded |-> loaded.discarded ]

\* -------------------------------------------------------------------------
\* Runs of the order import
\* -------------------------------------------------------------------------

RawOrder(doc, email, date, total) == [ document_number |-> doc, customer_email |-> email, order_date |-> date, total_amount |-> total ]

\* an order from before the default window, one on its first day, a recent one
OldOrder == RawOrder("D-old", "a@x.it", DateCell(FirstDay - 40), TotalCell(1000))

EdgeOrder == RawOrder("D-edge", "a@x.it", DateCell(FirstDay - DefaultRetentionDays), NoTotalCell)

RecentOrder == RawOrder("D-new", "b@y.it", DateCell(FirstDay - 1), TotalCell(2500))

UndatedOrder == RawOrder("D-any", "b@y.it", BadDateCell, TotalCell(300))

OrderFile(rows) == [ exists |-> TRUE, readable |-> TRUE, rows |-> rows ]

OrderFiles ==
    { OrderFile(<<>>),
      OrderFile(<<OldOrder>>),
      OrderFile(<<EdgeOrder>>),
      OrderFile(<<RecentOrder>>),
      OrderFile(<<UndatedOrder>>),
      OrderFile(<<RecentOrder, OldOrder>>),
      OrderFile(<<RawOrder("", "a@x.it", NoDateCell, NoTotalCell), RecentOrder>>),
      OrderFile(<<RawOrder("D-mail", "nomail", DateCell(FirstDay), NoTotalCell),
                  RawOrder("D-tot", "a@x.it", DateCell(FirstDay), BadTotalCell)>>),
      [ exists |-> TRUE, readable |-> FALSE, rows |-> <<>> ],
      [ exists |-> FALSE, readable |-> FALSE, rows |-> <<>> ] }

RetentionOptions == { DefaultRetentionDays, 7 }

ImportOrdersStep ==
    \E file \in OrderFiles, retention_days \in RetentionOptions :
        /\ main(file, retention_days)
        /\ nextOrderId' <= MaxOrderId + 1
        /\ UNCHANGED <<today, loop, clientVars, catalogVars>>

\* midnight UTC passes
NextDayStep ==
    /\ today < FirstDay + MaxDays
    /\ today' = today + 1
    /\ UNCHANGED <<orders, nextOrderId, loop, clientVars, catalogVars, lastOp>>

NextOrders == ImportOrdersStep \/ NextDayStep

SpecOrders == Init /\ [][NextOrders]_vars

\* -------------------------------------------------------------------------
\* Properties of the order import
\* -------------------------------------------------------------------------

\* C15: once a run of the order import has completed, the orders table holds
\* no order whose order date is older than the retention days of that run.
C15_RetentionWindow ==
    [][ \A file \in OrderFiles, retention_days \in RetentionOptions :
          ( main(file, retention_days) /\ lastOp'.outcome = "completed" )
          => \A i \in 1..Len(orders') : ~OlderThan(orders'[i], today', retention_days) ]_vars

\* the stored orders without their ids, in rowid order
OrderRows(tbl) == [ i \in 1..Len(tbl) |-> [ f \in DOMAIN tbl[i] \ { "id" } |-> tbl[i][f] ] ]

\* C18: running the order import a second time on the same input, right after
\* a completed run, leaves the orders table as the first run left it.
C18_RerunIdempotent ==
    [][ \A file \in OrderFiles, retention_days \in RetentionOptions :
          ( /\ lastOp.op = "import_orders"
            /\ lastOp.outcome = "completed"
            /\ lastOp.request = [ file |-> file, retention_days |-> retention_days, at |-> today ]
            /\ main(file, retention_days) )
          => OrderRows(orders') = OrderRows(orders) ]_vars

\* -------------------------------------------------------------------------
\* Requests that write the products table
\* -------------------------------------------------------------------------

UpsertUpdateBodies ==
    { [ sku |-> SkuA, name |-> << "A" >>, image_hd |-> hd, gallery |-> gallery,
        pricing |-> [ base_price |-> Num(1000), prices |-> [ rivenditore |-> Num(900) ] ],
        extra |-> extra ] :
        hd \in { NoText, << "h" >> },
        gallery \in { <<>>, << "g1", "g2" >> },
        extra \in { EmptyDict, [ offer_id |-> "X" ] } }

UpsertSaveBodies ==
    { [ sku |-> SkuA, name |-> << "B" >>, base_price |-> Num(2000) ],
      [ sku |-> SkuA, name |-> << "B" >>, gallery |-> << "g3" >>,
        price_rivenditore |-> Num(1800), qty_stock |-> Num(4), status |-> "non_disponibile" ],
      [ name |-> << "U" >> ] }

UpsertUploads ==
    { [ kind |-> "none" ] }
    \cup { [ kind |-> "xlsx", filename |-> "listino.xlsx", rows |-> rows ] :
             rows \in { << ListRow(SkuA, << "a" >>, << "1", "2", ",", "5", "0" >>, << "1", "0" >>,
                                   <<>>, << "5" >>, << "S" >>) >>,
                        << ListRow(<<>>, << "u", "1" >>, <<>>, <<>>, <<>>, <<>>, <<>>),
                           ListRow(SkuA, <<>>, <<>>, << "3" >>, <<>>, <<>>, << "N" >>) >> } }

UpsertUpdateStep == \E body \in UpsertUpdateBodies : product_update(body)

UpsertSaveStep == \E body \in UpsertSaveBodies : admin_product_save(body)

UpsertImportStep ==
    \E upload \in UpsertUploads :
        /\ admin_price_list_import(upload)
        /\ Len(price_list_imports') <= MaxImports

UpsertDeleteStep == \E sku \in { SkuA, << "u", "1" >> } : admin_product_delete(sku)

NextUpsert ==
    \/ UpsertUpdateStep
    \/ UpsertSaveStep
    \/ UpsertImportStep
    \/ UpsertDeleteStep

SpecUpsert == Init /\ [][NextUpsert]_vars

\* -------------------------------------------------------------------------
\* Properties of the catalog upsert
\* -------------------------------------------------------------------------

\* the row upsert_product(data) leaves in a catalog that held nothing
FreshRow(data) == upsert_product(EmptyTable, data)[data.sku]

\* the catalog an import of the rows leaves when it starts from nothing
FreshImport(rows) == PriceListImport(EmptyTable, rows).products

\* the step rewrote the row of sku, added no row and touched no other row
Replaced(sku, row) ==
    /\ DOMAIN products' = DOMAIN products
    /\ products'[sku] = row
    /\ \A k \in DOMAIN products \ { sku } : products'[k] = products[k]

\* C16: the products table holds one row per SKU, and an upsert on a stored
\* SKU (product update, product save, each row of a price-list import) leaves
\* in every column of that row the value the request alone determines, the
\* extra attributes and the gallery included, and no other row changes.
C16_FullReplace ==
    [][ /\ \A body \in UpsertUpdateBodies :
             ( body.sku \in DOMAIN products /\ product_update(body) )
             => Replaced(body.sku, FreshRow(UpdateProduct(body, body.sku)))
        /\ \A body \in UpsertSaveBodies :
             ( Get(body, "sku", NoText) \in DOMAIN products /\ admin_product_save(body) )
             => Replaced(body.sku, FreshRow(SaveProduct(body, body.sku)))
        /\ \A upload \in UpsertUploads :
             ( upload.kind = "xlsx" /\ admin_price_list_import(upload) )
             => /\ DOMAIN products' = DOMAIN products \cup DOMAIN FreshImport(upload.rows)
                /\ \A k \in DOMAIN products' :
                     products'[k] = IF k \in DOMAIN FreshImport(upload.rows)
                                    THEN FreshImport(upload.rows)[k]
                                    ELSE products[k] ]_vars

\* an import has just rewritten two stored rows, and neither keeps an extra
\* attribute, a gallery or an image
C16_Witness ==
    /\ Imported(lastOp)
    /\ lastOp.updated = 2
    /\ lastOp.inserted = 0
    /\ \A k \in DOMAIN FreshImport(lastOp.request.rows) :
         /\ products[k].extra = EmptyDict
         /\ products[k].gallery = <<>>
         /\ products[k].image_hd = NoText

\* -------------------------------------------------------------------------
\* Properties of the values a price-list import stores
\* -------------------------------------------------------------------------

\* row i of the workbook is the one the import stored last for its SKU
StoredLast(rows, i) ==
    /\ TruthyText(ListRowSku(rows[i]))
    /\ \A j \in (i + 1)..Len(rows) : ListRowSku(rows[j]) # ListRowSku(rows[i])

\* C17: after a price-list import, the row of every imported SKU holds 0 in
\* each segment price and in the stock quantity whose cell was missing or not
\* a number, and the unavailable status when the status cell was missing.
C17_ExplicitDefaults ==
    Imported(lastOp) =>
        \A i \in 1..Len(lastOp.request.rows) :
            LET row    == lastOp.request.rows[i]
                stored == lastOp.products[ListRowSku(row)]
            IN  StoredLast(lastOp.request.rows, i) =>
                /\ safe_float(row.prezzo_distributore, Null) = Null
                   => stored.price_distributore = Num(0)
                /\ safe_float(row.prezzo_rivenditore, Null) = Null
                   => stored.price_rivenditore = Num(0)
                /\ safe_float(row.prezzo_rivenditore10, Null) = Null
                   => stored.price_rivenditore10 = Num(0)
                /\ safe_int(row.qty_stock, Null) = Null => stored.qty_stock = Num(0)
                /\ row.status = <<>> => stored.status = "non_disponibile"

\* -------------------------------------------------------------------------
\* The price-list status query
\* -------------------------------------------------------------------------

\* the keys create_app stores in the Application
AppKeys == {}

\* GET /admin/price_list/status.  request.app["db"] raises KeyError for a key
\* the Application does not hold, and the middleware answers 500.
admin_price_list_status ==
    /\ IF "db" \notin AppKeys
       THEN lastOp' = [ op |-> "price_list_status", status |-> 500,
                        error |-> "internal_error" ]
       ELSE lastOp' = [ op |-> "price_list_status", status |-> 200,
                        last_import_at |->
                            IF "price_list_last_import_at" \in DOMAIN meta
                            THEN Num(meta["price_list_last_import_at"]) ELSE Null ]
    /\ UNCHANGED <<loop, orderVars, clientVars, catalogVars>>

PriceListStatusStep == admin_price_list_status

NextStatus == PriceListImportStep \/ PriceListStatusStep

SpecStatus == Init /\ [][NextStatus]_vars

\* C19: a price-list import that ran to its end has recorded the file name,
\* the number of rows it stored and its instant, and a status query made after
\* such an import answers with the instant of the most recent one.
C19_StatusReturnsLatest ==
    /\ Imported(lastOp) =>
         /\ price_list_imports # <<>>
         /\ price_list_imports[Len(price_list_imports)] =
                [ imported_at    |-> lastOp.last_import_at,
                  file_name      |-> OrOpaque(lastOp.request.filename, "listino.xls"),
                  total_products |-> lastOp.inserted + lastOp.updated ]
    /\ ( lastOp.op = "price_list_status" /\ price_list_imports # <<>> ) =>
         /\ lastOp.status = 200
         /\ lastOp.last_import_at =
                Num(price_list_imports[Len(price_list_imports)].imported_at)

\* -------------------------------------------------------------------------
\* Properties of the promo_logs table
\* -------------------------------------------------------------------------

\* the step left every stored ledger row in place and as it was
KeepsLedgerRows ==
    /\ Len(promo_logs') >= Len(promo_logs)
    /\ SubSeq(promo_logs', 1, Len(promo_logs)) = promo_logs

\* C20: no step (grant, client save, promo-client import, client deletion,
\* summary) removes or changes a promo_logs row; a grant answered 200 appends
\* exactly one row, that of its client and action, and no other step appends.
C20_LedgerAppendOnly ==
    [][ /\ KeepsLedgerRows
        /\ \A id \in LedgerIds, code \in ActionCodes :
             admin_promo_add_points(id, code) =>
                 promo_logs' = IF lastOp'.status = 200
                               THEN Append(promo_logs, [ client_id   |-> id,
                                                         action_code |-> code,
                                                         points      |-> PromoPoints[code] ])
                               ELSE promo_logs
        /\ ~( lastOp'.op = "add_points" /\ lastOp'.status = 200 ) => promo_logs' = promo_logs
      ]_vars

\* a client has been deleted after two grants, and both of its ledger rows
\* are still stored
C20_Witness ==
    /\ lastOp.op = "client_delete"
    /\ lastOp.id # NoId
    /\ clients = EmptyTable
    /\ Len(promo_logs) = 2
    /\ \A i \in 1..2 : promo_logs[i].client_id = lastOp.id

\* -------------------------------------------------------------------------
\* Further properties of price resolution
\* -------------------------------------------------------------------------

\* C21: a pricing request, for a catalog SKU or for a product made of the
\* request, leaves the products, discount_rules, clients and promo_logs tables
\* as they were, and the same request made again against the tables it left
\* gets the same response.
C21_PricingNoSideEffects ==
    /\ [][ ( lastOp'.op = "pricing" /\ pricing(lastOp'.request) ) =>
              UNCHANGED <<products, discount_rules, clients, promo_logs>> ]_vars
    /\ [](Priced => PricingResponse(lastOp.request) = lastOp)

\* a request for a SKU the catalog lacks got the discount of the offer it
\* named, while the catalog held another product, and the catalog still lacks
\* the SKU
C21_Witness ==
    /\ Priced
    /\ Get(lastOp.request, "sku", NoText) = SkuZ
    /\ ~HasProduct(products, SkuZ)
    /\ HasProduct(products, SkuA)
    /\ discount_rules # <<>>
    /\ lastOp.result.discount_applied = 10

\* -------------------------------------------------------------------------
\* Properties of client reconciliation
\* -------------------------------------------------------------------------

\* the clients whose e-mail is the given one, compared as the query compares
EmailMatches(tbl, email) ==
    { id \in DOMAIN tbl : email # NoText /\ tbl[id].email # NoText
                          /\ Lower(tbl[id].email) = Lower(email) }

\* the clients whose tax id is the given one
PivaMatches(tbl, piva) == { id \in DOMAIN tbl : piva # None /\ tbl[id].piva = piva }

\* C22: when the e-mail of the one row of an imported sheet resolves to a
\* client b and its tax id to another client a, the import updates b with the
\* row and leaves a as it was, whichever of the two has the lower id.
C22_EmailBeforeTaxId ==
    [][ \A sheet \in { s \in Sheets : Len(s) = 1 } :
          \A a, b \in DOMAIN clients :
            LET email == CleanText(sheet[1].email)
                piva  == CleanOpaque(sheet[1].piva)
            IN  ( /\ a # b
                  /\ EmailMatches(clients, email) = { b }
                  /\ PivaMatches(clients, piva) = { a }
                  /\ admin_clients_import_promo(sheet) )
                => /\ clients'[b].piva = piva
                   /\ clients'[b].email = email
                   /\ clients'[a] = clients[a] ]_vars

\* -------------------------------------------------------------------------
\* Requests of the bracket model: brackets that overlap, saved out of order
\* -------------------------------------------------------------------------

BracketBodies ==
    { [ id |-> "X", rules |-> << Segment("rivenditore",
                                         << Item(5000, Null, 20), Item(0, Null, 10) >>) >> ],
      [ id |-> "X", rules |-> << Segment("rivenditore",
                                         << Item(10000, Null, 15), Item(5000, Num(20000), 0),
                                            Item(0, Num(5000), 5) >>) >> ],
      [ id |-> "X", rules |-> << Segment("ospite", << Item(0, Null, 8) >>) >> ],
      [ id |-> "Y", rules |-> << Segment("rivenditore", << Item(0, Num(9999), 30) >>) >> ],
      [ id |-> "Y", rules |-> << Segment("rivenditore", << Item(0, Null, 150) >>) >> ],
      [ id |-> "Y", rules |-> << Segment("rivenditore", << Item(0, Null, 0 - 10) >>) >> ],
      [ id |-> "X", rules |-> << Segment("rivenditore", <<>>) >> ] }

BracketProductBodies ==
    { [ sku |-> SkuA, name |-> << "A" >>,
        pricing |-> [ base_price |-> Num(9999) ], extra |-> extra ] :
        extra \in { EmptyDict, [ offer_id |-> "X" ], [ offer_id |-> "Y" ] } }

BracketPricingBodies ==
    { [ sku |-> SkuZ, customer_segment |-> seg, quantity |-> q,
        base_price |-> Num(base), offer_id |-> offer ] :
        seg \in { "rivenditore", "ospite" }, q \in { 1, 2 },
        base \in { 5000, 9999 }, offer \in { None, "X", "Y" } }
    \cup { [ sku |-> SkuA, customer_segment |-> seg, quantity |-> 1, offer_id |-> "Y" ] :
             seg \in { "rivenditore", "ospite" } }

BracketSaveStep ==
    \E body \in BracketBodies :
        /\ admin_offers_save(body)
        /\ Len(discount_rules') <= MaxRules

BracketProductStep == \E body \in BracketProductBodies : product_update(body)

BracketPricingStep == \E body \in BracketPricingBodies : pricing(body)

NextBrackets ==
    \/ BracketSaveStep
    \/ BracketProductStep
    \/ BracketPricingStep

SpecBrackets == Init /\ [][NextBrackets]_vars

\* the stored brackets of (offer_id, segment) whose closed interval holds the amount
Containing(offer_id, segment, amount) ==
    { i \in DOMAIN discount_rules :
        /\ discount_rules[i].offer_id = offer_id
        /\ discount_rules[i].segment = segment
        /\ discount_rules[i].min_amount <= amount
        /\ ( discount_rules[i].max_amount = Null
             \/ amount <= discount_rules[i].max_amount[1] ) }

\* C23: the discount of a pricing response is that of the bracket with the
\* smallest min_amount among the stored brackets of the product's offer and of
\* the requested segment that hold the line amount; it is 0 when the product
\* has no offer or no such bracket holds the amount.
C23_FirstBracketByMin ==
    Priced =>
        LET holds == Containing(PricedOffer, lastOp.result.segment, PricedAmount)
        IN  IF OrOpaque(PricedOffer, None) = None \/ holds = {}
            THEN lastOp.result.discount_applied = 0
            ELSE \E i \in holds :
                    /\ \A j \in holds :
                         discount_rules[i].min_amount <= discount_rules[j].min_amount
                    /\ lastOp.result.discount_applied = discount_rules[i].discount_percent

\* a product tied to offer X was priced while two stored brackets of its
\* segment held the amount, the one with the larger min saved first: the
\* response carries the 10 % of the bracket with the smaller min
C23_Witness ==
    /\ Priced
    /\ PricedOffer = "X"
    /\ Cardinality(Containing("X", lastOp.result.segment, PricedAmount)) = 2
    /\ discount_rules[1].min_amount = 5000
    /\ lastOp.result.discount_applied = 10

\* -------------------------------------------------------------------------
\* Properties of the ticket code
\* -------------------------------------------------------------------------

\* C24: a point grant changes the ticket code of a client only when the
\* client is enrolled and has no code, and then to a generated code; a grant
\* to a client that is not enrolled leaves its ticket code as it was.
C24_TicketOnlyIfEnrolled ==
    [][ ( lastOp'.op = "add_points" /\ lastOp'.status = 200 ) =>
          \A c \in DOMAIN clients :
            /\ c \in DOMAIN clients'
            /\ clients'[c].promo_ticket_code # clients[c].promo_ticket_code
               => /\ c = lastOp'.client_id
                  /\ clients[c].promo_enabled = 1
                  /\ clients[c].promo_ticket_code = None
                  /\ clients'[c].promo_ticket_code \in TicketCodes
            /\ clients[c].promo_enabled # 1
               => clients'[c].promo_ticket_code = clients[c].promo_ticket_code ]_vars

\* two grants went to a client that is not enrolled, and it holds no ticket
C24_Witness ==
    /\ lastOp.op = "add_points" /\ lastOp.status = 200
    /\ lastOp.client.promo_enabled = 0
    /\ lastOp.client.promo_ticket_code = None
    /\ lastOp.client.promo_points >= 10
    /\ Len(promo_logs) = 2

\* -------------------------------------------------------------------------
\* Point grants on the event loop
\* -------------------------------------------------------------------------

\* the task t may take its next step: it holds the thread, or no task does
Runs(t) == loop.running = t \/ LoopFree

GrantAtYielding(t, pc, client, txn) ==
    [ tasks |-> [ u \in DOMAIN loop.tasks |->
                    IF u = t THEN [ op |-> "add_points", body |-> loop.tasks[t].body,
                                    pc |-> pc, client |-> client, txn |-> txn ]
                    ELSE loop.tasks[u] ],
      running |-> NoId ]

\* the loop with the grant task t at a new position, holding the thread;
\* client is the row get_client_by_id returned, txn the state of the
\* transaction on the connection add_promo_points opened
GrantAt(t, pc, client, txn) ==
    [ tasks |-> [ u \in DOMAIN loop.tasks |->
                    IF u = t THEN [ op |-> "add_points", body |-> loop.tasks[t].body,
                                    pc |-> pc, client |-> client, txn |-> txn ]
                    ELSE loop.tasks[u] ],
      running |-> t ]

\* admin_promo_add_points resumes with the body: the check of the payload
GrantResume(t) ==
    LET task == loop.tasks[t]
    IN  /\ LoopFree
        /\ task.op = "add_points" /\ task.pc = "await_body"
        /\ IF task.body.client_id = NoId \/ task.body.action_code \notin DOMAIN PromoPoints
           THEN /\ lastOp' = [ op |-> "add_points", status |-> 400,
                               client_id |-> task.body.client_id ]
                /\ loop' = TaskDone(t)
           ELSE /\ loop' = GrantAt(t, "read", None, "none")
                /\ UNCHANGED lastOp
        /\ UNCHANGED <<orderVars, clientVars, catalogVars>>

\* client = get_client_by_id(client_id): a SELECT on a connection of its own,
\* before any statement runs on the connection of add_promo_points
GrantRead(t) ==
    LET task == loop.tasks[t]
    IN  /\ Runs(t)
        /\ task.op = "add_points" /\ task.pc = "read"
        /\ IF task.body.client_id \notin DOMAIN clients
           THEN /\ lastOp' = [ op |-> "add_points", status |-> 404,
                               client_id |-> task.body.client_id ]
                /\ loop' = TaskDone(t)
           ELSE /\ loop' = GrantAt(t, "write", clients[task.body.client_id], "none")
                /\ UNCHANGED lastOp
        /\ UNCHANGED <<orderVars, clientVars, catalogVars>>

\* the UPDATE with the values computed from the row that was read, the INSERT
\* into promo_logs, and the commit of the two
GrantWrite(t) ==
    LET task   == loop.tasks[t]
        id     == task.body.client_id
        points == PromoPoints[task.body.action_code]
    IN  /\ Runs(t)
        /\ task.op = "add_points" /\ task.pc = "write"
        /\ \E fresh \in TicketCodes :
             clients' = IF id \in DOMAIN clients
                        THEN [ clients EXCEPT
                                 ![id].promo_points = task.client.promo_points + points,
                                 ![id].promo_ticket_code = GrantTicket(task.client, fresh) ]
                        ELSE clients
        /\ promo_logs' = Append(promo_logs, [ client_id   |-> id,
                                              action_code |-> task.body.action_code,
                                              points      |-> points ])
        /\ loop' = GrantAt(t, "respond", task.client, "committed")
        /\ UNCHANGED <<orderVars, nextClientId, catalogVars, lastOp>>

\* return get_client_by_id(client_id), then get_promo_summary and the response
GrantRespond(t) ==
    LET task == loop.tasks[t]
        id   == task.body.client_id
    IN  /\ Runs(t)
        /\ task.op = "add_points" /\ task.pc = "respond"
        /\ lastOp' = IF id \in DOMAIN clients
                     THEN [ op |-> "add_points", status |-> 200, client_id |-> id,
                            client |-> clients[id],
                            summary |-> get_promo_summary(clients, promo_logs, id) ]
                     ELSE [ op |-> "add_points", status |-> 404, client_id |-> id ]
        /\ loop' = TaskDone(t)
        /\ UNCHANGED <<orderVars, clientVars, catalogVars>>

\* a new client is saved while the loop is idle
GrantClientBodies == { ClientBody(NoId, "P1", EmailA, enabled, 0, None) : enabled \in { 0, 1 } }

GrantClientStep ==
    \E body \in GrantClientBodies :
        /\ LoopFree
        /\ admin_clients_save(body)
        /\ nextClientId' <= MaxLedgerClients + 1

\* grants in flight, answered or not
GrantTasks == { t \in DOMAIN loop.tasks : loop.tasks[t].op = "add_points" }

GrantArriveStep ==
    \E id \in LedgerIds, code \in { "FOLLOW_SOCIAL", "UNKNOWN" } :
        /\ Len(promo_logs) + Cardinality(GrantTasks) < MaxLogs
        /\ Arrive("add_points", [ client_id |-> id, action_code |-> code ])

GrantResumeStep == \E t \in DOMAIN loop.tasks : GrantResume(t)

GrantReadStep == \E t \in DOMAIN loop.tasks : GrantRead(t)

GrantWriteStep == \E t \in DOMAIN loop.tasks : GrantWrite(t)

GrantRespondStep == \E t \in DOMAIN loop.tasks : GrantRespond(t)

NextGrants ==
    \/ GrantClientStep
    \/ GrantArriveStep
    \/ GrantResumeStep
    \/ GrantReadStep
    \/ GrantWriteStep
    \/ GrantRespondStep

SpecGrants == Init /\ [][NextGrants]_vars

\* a grant in flight that has read the client and has not written yet
ReadNotWritten(task) == task.op = "add_points" /\ task.pc = "write"

\* every write of a grant adds its points to the counter the client holds at
\* that moment and appends one ledger row; the counter is the sum of the
\* client's ledger rows; a ticket code, once set, is not replaced
NoLostUpdate ==
    /\ [][ \A t \in DOMAIN loop.tasks :
             GrantWrite(t) =>
                 /\ Len(promo_logs') = Len(promo_logs) + 1
                 /\ clients'[loop.tasks[t].body.client_id].promo_points =
                        clients[loop.tasks[t].body.client_id].promo_points
                        + PromoPoints[loop.tasks[t].body.action_code]
                 /\ clients[loop.tasks[t].body.client_id].promo_ticket_code # None
                    => UNCHANGED clients[loop.tasks[t].body.client_id].promo_ticket_code
       ]_vars
    /\ [](\A c \in DOMAIN clients : clients[c].promo_points = SumPoints(promo_logs, c))

\* C25 (as claimed): no grant is lost under any interleaving of two grants,
\* and the read of the client and the write of counter and ledger row are one
\* transaction: a grant that has read the client has its transaction open.
C25_ReadAndWriteOneTransaction ==
    /\ NoLostUpdate
    /\ [](\A t \in DOMAIN loop.tasks :
            ReadNotWritten(loop.tasks[t]) => loop.tasks[t].txn = "open")

\* C25 (amended): no grant is lost under any interleaving of two grants on the
\* event loop: each write adds to the current counter and appends one row, a
\* set ticket is kept, and from its read of the client to its response a grant
\* holds the thread, so that no other grant runs between its read and its write.
C25_NoLostUpdate ==
    /\ NoLostUpdate
    /\ [](\A t \in DOMAIN loop.tasks :
            ( loop.tasks[t].op = "add_points" /\ loop.tasks[t].pc # "await_body" )
            => loop.running = t)

\* a grant has written the first ledger row of an enrolled client and its
\* ticket while a second grant to the same client waits for its body
C25_Witness ==
    \E t, u \in DOMAIN loop.tasks :
        /\ loop.tasks[t].op = "add_points" /\ loop.tasks[t].pc = "respond"
        /\ loop.tasks[u].op = "add_points" /\ loop.tasks[u].pc = "await_body"
        /\ loop.tasks[u].body = loop.tasks[t].body
        /\ Len(promo_logs) = 1
        /\ clients[loop.tasks[t].body.client_id].promo_points = 5
        /\ clients[loop.tasks[t].body.client_id].promo_ticket_code \in TicketCodes

\* -------------------------------------------------------------------------
\* Catalog data against the values of the caller
\* -------------------------------------------------------------------------

\* the request with the base_price and the offer_id of another caller
WithCallerValues(body, base_price, offer_id) ==
    [ k \in DOMAIN body \cup { "base_price", "offer_id" } |->
        CASE k = "base_price" -> base_price
          [] k = "offer_id" -> offer_id
          [] OTHER -> body[k] ]

\* the request without base_price and offer_id
WithoutCallerValues(body) ==
    [ k \in DOMAIN body \ { "base_price", "offer_id" } |-> body[k] ]

CallerPrices == { Null, Num(0), Num(1), Num(9999), Num(10000) }

CallerOffers == { None, "X", "Y" }

\* C26: when the SKU of a pricing request is in the catalog, the result is the
\* one the same request gets with any other base_price and offer_id, and with
\* none; when the SKU is not in the catalog, the result is computed from the
\* base_price and the offer_id of the request.
C26_CatalogOverridesCaller ==
    Priced =>
        LET body == lastOp.request
            sku  == Get(body, "sku", NoText)
        IN  IF TruthyText(sku) /\ HasProduct(products, sku)
            THEN /\ \A base_price \in CallerPrices, offer_id \in CallerOffers :
                      PricingResponse(WithCallerValues(body, base_price, offer_id)).result
                          = lastOp.result
                 /\ PricingResponse(WithoutCallerValues(body)).result = lastOp.result
            ELSE lastOp.result =
                     compute_price_with_discounts(
                         discount_rules,
                         [ sku        |-> sku,
                           base_price |-> Get(body, "base_price", Num(0)),
                           extra      |-> [ offer_id |-> Get(body, "offer_id", None) ] ],
                         Get(body, "customer_segment", "ospite"),
                         Get(body, "quantity", 1))

\* a request for the catalog SKU A that names offer Y and 99.99 is priced at
\* the stored segment price with the discount of the stored offer X, while
\* offer Y has a rule stored
C26_Witness ==
    /\ Priced
    /\ Get(lastOp.request, "sku", NoText) = SkuA
    /\ HasProduct(products, SkuA)
    /\ Get(lastOp.request, "offer_id", None) = "Y"
    /\ Get(lastOp.request, "base_price", Null) = Num(9999)
    /\ PricedOffer = "X"
    /\ StoredRules("Y", "ospite") # <<>>
    /\ lastOp.result.base_price = 5000
    /\ lastOp.result.discount_applied > 0

\* -------------------------------------------------------------------------
\* Bounds of the resolved price
\* -------------------------------------------------------------------------

\* C27: a pricing response with a non-negative unit price has a discount
\* within 0..100 and a final amount between 0 and the line amount (price is
\* in 1/100 cent, the line amount in cents).
C27_PriceBounds ==
    ( Priced /\ lastOp.result.base_price >= 0 ) =>
        /\ lastOp.result.discount_applied \in 0 .. 100
        /\ 0 <= lastOp.result.price
        /\ lastOp.result.price <= 100 * PricedAmount

\* -------------------------------------------------------------------------
\* valid_until and price resolution
\* -------------------------------------------------------------------------

\* None, a day in the past and a day in the future
ValidUntils == { None, "2020-01-01", "2999-12-31" }

\* the rule tables that differ from tbl in the valid_until of their rows only
ExpiryVariants(tbl) ==
    { [ i \in DOMAIN tbl |-> [ tbl[i] EXCEPT !.valid_until = f[i] ] ] :
        f \in [ DOMAIN tbl -> ValidUntils ] }

\* C28: the result of a pricing request is the one the resolver gives over
\* every rule table that differs from the stored one in the valid_until of
\* its rules only.
C28_ValidUntilIgnored ==
    Priced =>
        \A tbl \in ExpiryVariants(discount_rules) :
            compute_price_with_discounts(tbl, PricedProduct,
                                         Get(lastOp.request, "customer_segment", "ospite"),
                                         Get(lastOp.request, "quantity", 1))
                = lastOp.result

\* the catalog product A, tied to offer X, is priced with the 10 % of a stored
\* rule whose valid_until is 2020-01-01
C28_Witness ==
    /\ Priced
    /\ Get(lastOp.request, "sku", NoText) = SkuA
    /\ HasProduct(products, SkuA)
    /\ PricedOffer = "X"
    /\ lastOp.result.segment = "rivenditore"
    /\ lastOp.result.discount_applied = 10
    /\ \E i \in DOMAIN discount_rules :
         /\ discount_rules[i].offer_id = "X"
         /\ discount_rules[i].segment = "rivenditore"
         /\ discount_rules[i].discount_percent = 10
         /\ discount_rules[i].valid_until = "2020-01-01"

\* -------------------------------------------------------------------------
\* Counters of the promo-client import
\* -------------------------------------------------------------------------

\* the counters of the response `op` add up over the rows of `sheet`: every
\* non-empty row is processed, and is an error entry or one of imported/updated
CountsAddUp(op, sheet) ==
    /\ op.processed = Len(SelectSeq(sheet, NonEmptyRow))
    /\ op.processed = op.imported + op.updated + Len(op.errors)
    /\ \A i, j \in DOMAIN op.errors : i # j => op.errors[i].row # op.errors[j].row
    /\ \A i \in DOMAIN op.errors : op.errors[i].row \in 1 .. op.processed

\* C29: an import that ran to its end reports processed = imported + updated +
\* number of error entries, with one error entry at most for a row, and the
\* clients table has `imported` rows more than before, all of them new ids.
C29_ImportCountsAddUp ==
    [][ \A sheet \in Sheets :
          ( admin_clients_import_promo(sheet) /\ lastOp'.status = 200 ) =>
              /\ CountsAddUp(lastOp', sheet)
              /\ DOMAIN clients \subseteq DOMAIN clients'
              /\ Cardinality(DOMAIN clients') = Cardinality(DOMAIN clients) + lastOp'.imported
              /\ nextClientId' = nextClientId + lastOp'.imported
      ]_vars

\* an import of two rows answered with one client updated and one error entry
\* while the table had a client already
C29_Witness ==
    /\ lastOp.op = "import_promo"
    /\ lastOp.status = 200
    /\ lastOp.processed = 2
    /\ lastOp.imported = 0
    /\ lastOp.updated = 1
    /\ Len(lastOp.errors) = 1
    /\ DOMAIN clients # {}

\* -------------------------------------------------------------------------
\* Counters of the order import
\* -------------------------------------------------------------------------

\* C30: a run of the order import that read its file reports a total equal to
\* the valid rows plus the discarded rows, every row of the file is one or the
\* other, and the rows inserted are the valid ones.
C30_OrderCountsAddUp ==
    ( lastOp.op = "import_orders" /\ lastOp.outcome = "completed" ) =>
        /\ lastOp.total = lastOp.valid + lastOp.discarded
        /\ lastOp.valid + lastOp.discarded = Len(lastOp.request.file.rows)
        /\ lastOp.inserted = lastOp.valid
====
